---- MODULE Spec2Model ----
(***************************************************************************)
(* A model of the rune code-search core (varunkamath/rune, rune-core):     *)
(* the search engine with its retrievers, central pagination and the       *)
(* query-result cache; the indexer with the full-text writer, the metadata *)
(* store and the vector store.                                              *)
(*                                                                          *)
(* Text is modelled as sequences of one-character strings, so that the      *)
(* file-pattern filters are computed the way the code computes them.        *)
(* File contents are modelled by the features the retrievers read from a    *)
(* line: the number of occurrences of the query term, whether the line      *)
(* carries a definition keyword, and the number of fuzzy word matches.      *)
(***************************************************************************)
EXTENDS Integers, Sequences, FiniteSets, TLC

VARIABLES
    disk,        \* the workspace on disk: path -> content id, or NoFile
    writerDocs,  \* documents as the index writer sees them (uncommitted included)
    committed,   \* documents of the last commit of the full-text index
    readerDocs,  \* the snapshot the search engine's reader serves
    meta,        \* metadata store: path -> content hash, or NoMeta
    vstore,      \* vector store: the set of points (id, payload)
    semantic,    \* TRUE when the embedding pipeline is available
    cache,       \* query-result cache: the set of entries, one per key
    metrics,     \* cache metrics: l1_hits, l1_misses, total_queries
    now,         \* the monotonic clock (Instant::now)
    events,      \* the channel from the file watchers to the event processor
    lock,        \* the holder of the index writer's lock (an Option)
    pc,          \* the indexing tasks: where each one is
    local,       \* the indexing tasks: the file each one is working on
    embedded,    \* per path, the content process_file stored last (history)
    issued,      \* every point process_file has sent to the vector store (history)
    handled,     \* the file event the event processor completed last (an Option)
    changes,     \* the number of changes made to the workspace on disk
    faults,      \* the number of steps that have failed
    results,     \* search(): the list the retriever returned, before pagination
    out,         \* the response search() returned last (an Option)
    prev,        \* the response search() returned before that
    callers,     \* concurrent callers of search(): where each one is
    watch,       \* the indexer's watch state (flag, handles, shutdown sender)
    counter,     \* INDEXING_COUNTER, the number of index_workspaces calls
    qdrant,      \* a QdrantManager::new call: its inputs, position and log
    dbdir,       \* the metadata store's directory and the processes on it
    direct,      \* the last direct call of a component: function, arguments, result
    stopping     \* a stop_watching() call in steps: the call, the channels, the threads

----------------------------------------------------------------------------
(* Bounds of the model *)

MaxLimit == 2        \* query.limit ranges over 1..MaxLimit
MaxOffset == 2       \* query.offset ranges over 0..MaxOffset
MaxQueries == 3      \* search() calls in one behaviour (caps the counters)
ClockStep == 150     \* the clock advances by this many seconds at a time
MaxTicks == 4        \* and stops after this many steps
MaxChanges == 1      \* files written or removed while the engine runs
MaxFaults == 1       \* steps of the indexer that fail (I/O, store, commit)

----------------------------------------------------------------------------
(* Text *)

StartsWithAt(s, sub, i) ==
    /\ i + Len(sub) - 1 <= Len(s)
    /\ \A k \in 1..Len(sub) : s[i + k - 1] = sub[k]

\* str::contains: the empty string is contained in every string
Contains(s, sub) == \E i \in 1..(Len(s) + 1) : StartsWithAt(s, sub, i)

HasStar(p) == \E i \in DOMAIN p : p[i] = "*"

\* pattern.replace("*", "")
RemoveStars(p) == SelectSeq(p, LAMBDA ch : ch # "*")

\* index of the last "/" of a path, 0 when there is none
LastSlash(path) ==
    LET S == {i \in DOMAIN path : path[i] = "/"}
    IN  IF S = {} THEN 0 ELSE CHOOSE i \in S : \A j \in S : j <= i

\* Path::file_name
FileName(path) == SubSeq(path, LastSlash(path) + 1, Len(path))

\* Path::parent
Parent(path) == SubSeq(path, 1, LastSlash(path) - 1)

\* path.split('/').next()
FirstComponent(path) ==
    LET S == {i \in DOMAIN path : path[i] = "/"}
    IN  IF S = {} THEN path
        ELSE SubSeq(path, 1, (CHOOSE i \in S : \A j \in S : i <= j) - 1)

----------------------------------------------------------------------------
(* The workspace: one root /w (repository "w") and the files under it *)

Root == <<"/", "w">>

PathA == <<"/", "w", "/", "a", ".", "j", "s">>
PathB == <<"/", "w", "/", "b", ".", "j", "s", "x">>
PathC == <<"/", "w", "/", "s", "/", "c", ".", "j", "s">>

Paths == {PathA, PathB, PathC}

\* the order in which walk_directory yields the files
WalkOrder == <<PathA, PathB, PathC>>

NoFile == "NoFile"
NoMeta == <<"NoMeta">>

\* A line of a file, by what the retrievers read from it for the query term:
\* occ exact occurrences, def a definition keyword on the line (also a
\* chunk boundary), fz fuzzy word matches (looked for when occ = 0).
Line(occ, def, fz) == [occ |-> occ, def |-> def, fz |-> fz]

Contents == {"c1", "c2", "c3", "c4", "c5"}

Lines(c) ==
    CASE c = "c1" -> <<Line(1, TRUE, 0), Line(3, FALSE, 0)>>
      [] c = "c2" -> <<Line(1, TRUE, 0)>>
      [] c = "c3" -> <<Line(2, FALSE, 0)>>
      [] c = "c4" -> <<Line(1, TRUE, 0), Line(0, FALSE, 1), Line(1, TRUE, 0)>>
      [] c = "c5" -> <<Line(0, FALSE, 0), Line(1, FALSE, 0)>>

RECURSIVE SumSeq(_)
SumSeq(s) == IF s = <<>> THEN 0 ELSE Head(s) + SumSeq(Tail(s))

RECURSIVE Flatten(_)
Flatten(ss) == IF ss = <<>> THEN <<>> ELSE Head(ss) \o Flatten(Tail(ss))

Range(s) == {s[i] : i \in DOMAIN s}

RemoveAt(s, i) == SubSeq(s, 1, i - 1) \o SubSeq(s, i + 1, Len(s))

Min(a, b) == IF a <= b THEN a ELSE b

\* Option<T>: None is <<>>, Some(v) is <<v>>
None == <<>>
Some(v) == <<v>>
IsSome(o) == o # <<>>
Unwrap(o) == o[1]

----------------------------------------------------------------------------
(* Hashes and identities *)

HexDigits == <<"0", "1", "2", "3", "4", "5", "6", "7",
               "8", "9", "a", "b", "c", "d", "e", "f">>

RECURSIVE Repeat(_, _)
Repeat(s, n) == IF n = 0 THEN <<>> ELSE s \o Repeat(s, n - 1)

\* the characters and tokens texts are made of
Alphabet == <<"/", ".", "*", "a", "b", "c", "f", "j", "n", "o", "s", "w",
              "c1", "c2", "c3", "c4", "0", "1", "2", "3", "4", "5", "c5",
              "x">>

Code(ch) == CHOOSE i \in DOMAIN Alphabet : Alphabet[i] = ch

RECURSIVE Digest(_, _)
Digest(x, h) ==
    IF x = <<>> THEN h
    ELSE Digest(Tail(x), (h * 31 + Code(Head(x))) % 16777216)

RECURSIVE Hex(_)
Hex(n) == IF n < 16 THEN <<HexDigits[n + 1]>>
          ELSE Hex(n \div 16) \o <<HexDigits[(n % 16) + 1]>>

\* format!("{:08x}", n): at least 8 digits, padded with zeros on the left
Hex08(n) == LET h == Hex(n)
            IN  IF Len(h) >= 8 THEN h ELSE Repeat(<<"0">>, 8 - Len(h)) \o h

\* blake3::hash(x).to_hex(): 64 hex digits of a digest of the text x (a
\* sequence of characters). The digest is a polynomial hash, free of
\* collisions on the texts of the model.
Blake3Hex(x) == Repeat(Hex08(Digest(x, 7)), 8)

\* the bytes of a file content
ContentText(c) == <<c>>

DigitStr(n) == HexDigits[n + 1]

----------------------------------------------------------------------------
(* Chunker (CodeChunker::chunk_file) *)

\* file_path.rsplit('.').next()
Extension(path) ==
    LET S == {i \in DOMAIN path : path[i] = "."}
    IN  IF S = {} THEN path
        ELSE SubSeq(path, (CHOOSE i \in S : \A j \in S : j <= i) + 1, Len(path))

\* CodeChunker::detect_language, on the extensions of the model
DetectLanguage(path) ==
    IF Extension(path) = <<"j", "s">> THEN Some("javascript") ELSE None

Chunk(c, first, last) ==
    [start_line |-> first, end_line |-> last,
     content |-> <<c, DigitStr(first), DigitStr(last)>>]

\* chunk_with_heuristics on a small file whose braces balance on each line:
\* a new chunk opens at every boundary line but the first line.
RECURSIVE ChunkFrom(_, _, _)
ChunkFrom(c, first, i) ==
    LET lines == Lines(c)
    IN  IF i > Len(lines) THEN <<Chunk(c, first, Len(lines))>>
        ELSE IF lines[i].def /\ i > first
             THEN <<Chunk(c, first, i - 1)>> \o ChunkFrom(c, i, i + 1)
             ELSE ChunkFrom(c, first, i + 1)

\* chunk_simple on a file of fewer than chunk_size / 80 lines: one chunk
ChunkSimple(c) == <<Chunk(c, 1, Len(Lines(c)))>>

ChunkFile(c, path) ==
    IF Lines(c) = <<>> THEN <<>>
    ELSE IF IsSome(DetectLanguage(path)) THEN ChunkFrom(c, 1, 1)
    ELSE ChunkSimple(c)

\* the 32 digits laid out 8-4-4-4-12
UuidFormat(digits) ==
    SubSeq(digits, 1, 8) \o <<"-">> \o SubSeq(digits, 9, 12) \o <<"-">>
        \o SubSeq(digits, 13, 16) \o <<"-">> \o SubSeq(digits, 17, 20)
        \o <<"-">> \o SubSeq(digits, 21, 32)

\* a variant of the point id: a fresh id at every call, as Uuid::new_v4() gives
PointIdFresh(file_path, chunk) ==
    UuidFormat(Repeat(Hex08(Cardinality(issued) + 1), 4))

\* EmbeddingPipeline::process_file, lines 71-90: the point id
PointId(file_path, chunk) ==
    LET file_hash == Blake3Hex(file_path)
        content_hash == Blake3Hex(chunk.content)
        line_info == Hex08(chunk.start_line) \o Hex08(chunk.end_line)
        combined == SubSeq(file_hash, 1, 16) \o line_info
                        \o SubSeq(content_hash, 1, 8)
    IN  UuidFormat(combined)

Point(file_path, chunk) ==
    [id |-> PointId(file_path, chunk), file_path |-> file_path,
     start_line |-> chunk.start_line, end_line |-> chunk.end_line,
     content |-> chunk.content]

\* the points process_file sends to QdrantManager::store_embeddings
FilePoints(file_path, c) ==
    LET chunks == ChunkFile(c, file_path)
    IN  {Point(file_path, chunks[i]) : i \in DOMAIN chunks}

\* upsert_points: a point replaces the stored point of the same id
Upsert(store, points) ==
    {p \in store : \A n \in points : n.id # p.id} \cup points

----------------------------------------------------------------------------
(* The full-text index as the retrievers read it *)

Doc(path, repository, c) == [path |-> path, repository |-> repository, content |-> c]

\* The relevance score the index gives a document for the query term: the
\* number of occurrences and fuzzy matches of the term in the document.
DocScore(d) ==
    LET ls == Lines(d.content)
    IN  SumSeq([i \in DOMAIN ls |-> ls[i].occ + ls[i].fz])

\* the content or symbols field of the document matches the term (or a
\* fuzzy variant of it)
ContentHit(d) == \E i \in DOMAIN Lines(d.content) :
                    Lines(d.content)[i].occ > 0 \/ Lines(d.content)[i].fz > 0

\* the symbols field of the document holds the term
SymbolsHit(d) == \E i \in DOMAIN Lines(d.content) :
                    Lines(d.content)[i].def /\ Lines(d.content)[i].occ > 0

\* TopDocs::with_limit(n): the n best documents, higher score first, equal
\* scores in index order
RECURSIVE TopDocs(_, _)
TopDocs(cands, n) ==
    IF n = 0 \/ cands = <<>> THEN <<>>
    ELSE LET best == CHOOSE i \in DOMAIN cands : \A j \in DOMAIN cands :
                        \/ DocScore(cands[j]) < DocScore(cands[i])
                        \/ DocScore(cands[j]) = DocScore(cands[i]) /\ i <= j
         IN  <<cands[best]>> \o TopDocs(RemoveAt(cands, best), n - 1)

\* TantivyIndexer::search_documents on the reader's snapshot; the query is
\* the term parsed for the content and symbols fields ("content") or for the
\* symbols field alone ("symbols")
SearchDocuments(docs, fields, limit) ==
    TopDocs(SelectSeq(docs, LAMBDA d : IF fields = "symbols" THEN SymbolsHit(d)
                                       ELSE ContentHit(d)), limit)

----------------------------------------------------------------------------
(* Queries and results *)

Term == <<"f", "o", "o">>

\* a query text of one character; no file of the workspace holds it as a word
ShortTerm == <<"f">>

\* a query text that is not a regular expression (an unclosed bracket)
BadTerm == <<"[", "f">>

Modes == {"Literal", "Regex", "Symbol", "Semantic", "Hybrid"}

StarJs == <<"*", ".", "j", "s">>
RepoW == <<"w">>

Query(mode, repositories, file_patterns, limit, offset) ==
    [query |-> Term, mode |-> mode, repositories |-> repositories,
     file_patterns |-> file_patterns, limit |-> limit, offset |-> offset]

Queries ==
    {Query(m, r, f, l, o) :
        m \in Modes, r \in {None, Some(<<RepoW>>)},
        f \in {None, Some(<<StarJs>>)}, l \in 1..MaxLimit, o \in 0..MaxOffset}

Result(path, repository, line, column, score, type) ==
    [file_path |-> path, repository |-> repository, line_number |-> line,
     column |-> column, score |-> score, match_type |-> type]

\* the repository filter of the literal, symbol and regex retrievers
RepoAllowed(q, repository) ==
    IsSome(q.repositories) => repository \in Range(Unwrap(q.repositories))

\* the file-pattern test of the literal, symbol and regex retrievers
PatternMatchesName(pattern, file_name) ==
    IF HasStar(pattern) THEN Contains(file_name, RemoveStars(pattern))
    ELSE file_name = pattern

PatternAllowed(q, path) ==
    IsSome(q.file_patterns) =>
        \E pattern \in Range(Unwrap(q.file_patterns)) :
            PatternMatchesName(pattern, FileName(path))

\* scores are kept in hundredths
ScoreOf(d) == DocScore(d) * 100

\* LiteralSearcher::find_matches_in_content for a single-word term: one
\* exact result per occurrence and, on a line without an occurrence, one
\* fuzzy result per fuzzy match, its score scaled by the similarity (0.8)
LineMatches(path, repository, ls, i, score) ==
    [k \in 1..ls[i].occ |-> Result(path, repository, i, k - 1, score, "Exact")]
    \o (IF ls[i].occ = 0
        THEN [k \in 1..ls[i].fz |->
                Result(path, repository, i, k - 1, (score * 8) \div 10, "Fuzzy")]
        ELSE <<>>)

FindMatchesInContent(path, repository, c, score) ==
    Flatten([i \in DOMAIN Lines(c) |->
                LineMatches(path, repository, Lines(c), i, score)])

\* SymbolSearcher::find_symbol_matches: the definition lines naming the term
FindSymbolMatches(path, repository, c, score) ==
    Flatten([i \in DOMAIN Lines(c) |->
                IF Lines(c)[i].def /\ Lines(c)[i].occ > 0
                THEN <<Result(path, repository, i, 0, score, "Symbol")>>
                ELSE <<>>])

\* RegexSearcher::find_regex_matches with the term as the pattern
FindRegexMatches(path, repository, c) ==
    Flatten([i \in DOMAIN Lines(c) |->
                [k \in 1..Lines(c)[i].occ |->
                    Result(path, repository, i, k - 1, 100, "Exact")]])

\* LiteralSearcher::search
LiteralFetchLimit(q) == (q.limit + q.offset) * 10

LiteralSearch(q, docs) ==
    LET hits == SearchDocuments(docs, "content", LiteralFetchLimit(q))
    IN  Flatten([i \in DOMAIN hits |->
            IF RepoAllowed(q, hits[i].repository) /\ PatternAllowed(q, hits[i].path)
            THEN FindMatchesInContent(hits[i].path, hits[i].repository,
                                      hits[i].content, ScoreOf(hits[i]))
            ELSE <<>>])

\* SymbolSearcher::search
SymbolFetchLimit(q) == q.limit + q.offset

SymbolSearch(q, docs) ==
    LET hits == SearchDocuments(docs, "symbols", SymbolFetchLimit(q))
    IN  Flatten([i \in DOMAIN hits |->
            IF RepoAllowed(q, hits[i].repository) /\ PatternAllowed(q, hits[i].path)
            THEN FindSymbolMatches(hits[i].path, hits[i].repository,
                                   hits[i].content, ScoreOf(hits[i]))
            ELSE <<>>])

\* file_path.parent().file_name(): the repository the regex retriever derives
ParentName(path) == FileName(Parent(path))

\* StorageBackend::list_files: the keys of the metadata store, in key order
ListFiles(m) == SelectSeq(WalkOrder, LAMBDA p : m[p] # NoMeta)

\* RegexSearcher::search: scans the files the metadata store lists, on disk
RegexSearch(q, m, dsk) ==
    LET files == ListFiles(m)
    IN  Flatten([i \in DOMAIN files |->
            IF /\ RepoAllowed(q, ParentName(files[i]))
               /\ PatternAllowed(q, files[i])
               /\ dsk[files[i]] # NoFile
            THEN FindRegexMatches(files[i], ParentName(files[i]), dsk[files[i]])
            ELSE <<>>])

----------------------------------------------------------------------------
(* Semantic retriever *)

\* SemanticSearcher::matches_patterns turns a pattern holding '*' into a
\* regular expression: replace("**", ".*") and then replace('*', "[^/]*"),
\* which also rewrites the '*' the first replacement wrote. Tokens of the
\* expression: "any" for '.', "seg" for [^/]*, and the literal characters.
RECURSIVE ReplaceStarStar(_)
ReplaceStarStar(p) ==
    IF Len(p) >= 2 /\ p[1] = "*" /\ p[2] = "*"
    THEN <<".", "*">> \o ReplaceStarStar(SubSeq(p, 3, Len(p)))
    ELSE IF p = <<>> THEN <<>>
    ELSE <<Head(p)>> \o ReplaceStarStar(Tail(p))

RegexTokens(p) ==
    LET r == ReplaceStarStar(p)
    IN  [i \in DOMAIN r |-> IF r[i] = "*" THEN "seg"
                            ELSE IF r[i] = "." THEN "any" ELSE r[i]]

\* the tokens from position ti on match the text at position si
RECURSIVE TokensMatchAt(_, _, _, _)
TokensMatchAt(toks, ti, s, si) ==
    IF ti > Len(toks) THEN TRUE
    ELSE IF toks[ti] = "seg"
         THEN \/ TokensMatchAt(toks, ti + 1, s, si)
              \/ si <= Len(s) /\ s[si] # "/" /\ TokensMatchAt(toks, ti, s, si + 1)
    ELSE IF toks[ti] = "any"
         THEN si <= Len(s) /\ TokensMatchAt(toks, ti + 1, s, si + 1)
    ELSE si <= Len(s) /\ s[si] = toks[ti] /\ TokensMatchAt(toks, ti + 1, s, si + 1)

\* Regex::is_match: the expression matches somewhere in the text
RegexIsMatch(toks, s) == \E si \in 1..(Len(s) + 1) : TokensMatchAt(toks, 1, s, si)

MatchesPatterns(path, patterns) ==
    \E i \in DOMAIN patterns :
        IF HasStar(patterns[i]) THEN RegexIsMatch(RegexTokens(patterns[i]), path)
        ELSE Contains(path, patterns[i])

\* SemanticSearcher::extract_repo_from_path
ExtractRepoFromPath(path) == FirstComponent(path)

\* The similarity the vector store gives a point for the query: the number
\* of occurrences and fuzzy matches of the term in the chunk, in hundredths.
Similarity(p) ==
    LET ls == Lines(p.content[1])
    IN  10 * SumSeq([k \in 1..(p.end_line - p.start_line + 1) |->
                        ls[p.start_line + k - 1].occ + ls[p.start_line + k - 1].fz])

WalkIndex(path) == CHOOSE i \in DOMAIN WalkOrder : WalkOrder[i] = path

\* QdrantManager::search: the `limit` most similar points, most similar
\* first; equal similarities in path and line order
RECURSIVE TopPoints(_, _)
TopPoints(points, n) ==
    IF n = 0 \/ points = {} THEN <<>>
    ELSE LET best == CHOOSE p \in points : \A r \in points :
                        \/ Similarity(r) < Similarity(p)
                        \/ /\ Similarity(r) = Similarity(p)
                           /\ \/ WalkIndex(p.file_path) < WalkIndex(r.file_path)
                              \/ /\ p.file_path = r.file_path
                                 /\ p.start_line <= r.start_line
         IN  <<best>> \o TopPoints(points \ {best}, n - 1)

\* SemanticSearcher::search
\* SemanticSearcher::search with the pipeline available: the top points,
\* filtered and converted
SemanticResults(q, store) ==
    LET top == TopPoints(store, q.limit)
        kept == SelectSeq(top, LAMBDA p :
                  /\ IsSome(q.repositories) =>
                       ExtractRepoFromPath(p.file_path) \in Range(Unwrap(q.repositories))
                  /\ IsSome(q.file_patterns) =>
                       MatchesPatterns(p.file_path, Unwrap(q.file_patterns)))
        n == Min(Len(kept), q.limit)
    IN  [i \in 1..n |->
          Result(kept[i].file_path, ExtractRepoFromPath(kept[i].file_path),
                 kept[i].start_line, 0, Similarity(kept[i]), "Semantic")]

\* a variant of the semantic retriever that does not test the pipeline
SemanticSearchStored(q, store, available) == SemanticResults(q, store)

SemanticSearch(q, store, available) ==
    IF ~available THEN <<>> ELSE SemanticResults(q, store)

----------------------------------------------------------------------------
(* Hybrid retriever: reciprocal-rank fusion *)

K == 60

\* fused scores are kept in units of 10^-9
RrfScale == 10^9

\* 1.0 / (k + rank as f32 + 1.0) for the 0-based rank of enumerate(): here
\* rank is the 1-based position in the retriever's list
RrfScore(rank) == RrfScale \div (K + rank)

KeyOf(r) == <<r.file_path, r.line_number>>

\* rrf_scores.entry(key).and_modify(|(_, score)| *score += rrf_score)
\*                      .or_insert((result, rrf_score))
\* The accumulator is kept as a sequence of entries in insertion order.
RrfAdd(acc, r, rank) ==
    IF \E i \in DOMAIN acc : acc[i].key = KeyOf(r)
    THEN [i \in DOMAIN acc |->
            IF acc[i].key = KeyOf(r)
            THEN [acc[i] EXCEPT !.score = @ + RrfScore(rank)]
            ELSE acc[i]]
    ELSE Append(acc, [key |-> KeyOf(r), result |-> r, score |-> RrfScore(rank)])

RECURSIVE RrfAddList(_, _, _)
RrfAddList(acc, list, i) ==
    IF i > Len(list) THEN acc
    ELSE RrfAddList(RrfAdd(acc, list[i], i), list, i + 1)

RrfAccumulate(literal, symbol, sem) ==
    RrfAddList(RrfAddList(RrfAddList(<<>>, literal, 1), symbol, 1), sem, 1)

\* rrf_scores.into_values().collect() yields the entries in the order of the
\* hash map, which is unspecified; the stable sort by score keeps that order
\* among equal scores. Every order with scores descending is an outcome.
RECURSIVE ScoreOrders(_)
ScoreOrders(entries) ==
    IF entries = {} THEN {<<>>}
    ELSE UNION {{<<e>> \o t : t \in ScoreOrders(entries \ {e})} :
                    e \in {x \in entries : \A y \in entries : y.score <= x.score}}

\* HybridSearcher::search: the set of lists it can return
HybridOutcomes(literal, symbol, sem) ==
    LET acc == RrfAccumulate(literal, symbol, sem)
    IN  {[i \in DOMAIN o |-> [o[i].result EXCEPT !.score = o[i].score]] :
            o \in ScoreOrders(Range(acc))}

HybridSearch(q, docs, store, available) ==
    HybridOutcomes(LiteralSearch(q, docs), SymbolSearch(q, docs),
                   SemanticSearch(q, store, available))

\* a variant of the retrievers that accepts every query text
RetrieverFailsNever(q) == FALSE

\* RegexSearcher::search: Regex::new(&query.query)? returns the error
RetrieverFails(q) == q.mode = "Regex" /\ q.query = BadTerm

\* SearchEngine::search, the dispatch by mode: the lists the retriever can
\* return. The index holds the lines' features for Term; a parsed query for
\* another word matches no document.
Retrieve(q, docs, m, dsk, store, available) ==
    IF q.query # Term THEN {<<>>} ELSE
    CASE q.mode = "Literal"  -> {LiteralSearch(q, docs)}
      [] q.mode = "Regex"    -> {RegexSearch(q, m, dsk)}
      [] q.mode = "Symbol"   -> {SymbolSearch(q, docs)}
      [] q.mode = "Semantic" -> {SemanticSearch(q, store, available)}
      [] q.mode = "Hybrid"   -> HybridSearch(q, docs, store, available)

\* a variant of the pagination that does not skip the offset
PaginateNoSkip(list, q) == SubSeq(list, 1, Min(Len(list), q.limit))

\* results.into_iter().skip(query.offset).take(query.limit).collect()
Paginate(list, q) == SubSeq(list, q.offset + 1, Min(Len(list), q.offset + q.limit))

\* the SearchResponse search() builds; from_cache stands for Some(from_cache)
Response(q, list, from_cache) ==
    [query |-> q, results |-> Paginate(list, q),
     total_matches |-> Len(list), from_cache |-> from_cache]

----------------------------------------------------------------------------
(* Query-result cache (MultiTierCache) *)

L1MaxEntries == 10000
L1TtlSecs == 300
MinQueryLength == 2

\* CacheConfig::default()
DefaultCacheConfig ==
    [l1_max_entries |-> L1MaxEntries, l1_ttl |-> L1TtlSecs,
     min_query_length |-> MinQueryLength]

\* Hash for str writes the bytes and a terminator; the 64-bit hash is modelled
\* by the byte stream it digests (no collisions).
HashStr(s) == s \o <<"ff">>

HashStrs(o) ==
    IF IsSome(o) THEN Flatten([i \in DOMAIN Unwrap(o) |-> HashStr(Unwrap(o)[i])])
    ELSE <<>>

\* CacheKey::from_query
CacheKey(q) ==
    [query_hash |-> HashStr(q.query), mode |-> q.mode,
     repositories_hash |-> HashStrs(q.repositories),
     file_patterns_hash |-> HashStrs(q.file_patterns),
     limit |-> q.limit, offset |-> q.offset]

\* CachedResult::new
CachedResult(key, response, t) ==
    [key |-> key, response |-> response, cached_at |-> t,
     access_count |-> 1, last_accessed |-> t]

\* CachedResult::touch
Touch(entry, t) ==
    [entry EXCEPT !.access_count = @ + 1, !.last_accessed = t]

\* a variant of is_expired that keeps every entry for ever
IsExpiredNever(entry, ttl, t) == FALSE

\* CachedResult::is_expired: self.cached_at.elapsed() > ttl
IsExpired(entry, ttl, t) == t - entry.cached_at > ttl

\* a variant of the admission test that admits every query
TooShortNever(cfg, q) == FALSE

\* get and put: query.query.len() < self.config.min_query_length
TooShort(cfg, q) == Len(q.query) < cfg.min_query_length

\* MultiTierCache::get: the cache and the metrics after the call, and the
\* response returned (an Option)
CacheGet(cfg, c, m, q, t) ==
    IF TooShort(cfg, q)
    THEN [cache |-> c, metrics |-> m, response |-> None]
    ELSE
      LET key == CacheKey(q)
          m1 == [m EXCEPT !.total_queries = @ + 1]
          found == {e \in c : e.key = key}
      IN  IF found # {} /\ ~IsExpired(CHOOSE e \in found : TRUE, cfg.l1_ttl, t)
          THEN LET entry == CHOOSE e \in found : TRUE
               IN  [cache |-> (c \ found) \cup {Touch(entry, t)},
                    metrics |-> [m1 EXCEPT !.l1_hits = @ + 1],
                    response |-> Some(entry.response)]
          ELSE [cache |-> c \ found,
                metrics |-> [m1 EXCEPT !.l1_misses = @ + 1],
                response |-> None]

\* a variant of evict_lru that evicts the entry cached longest ago
EvictFifo(c, t) ==
    LET old == {e \in c : e.cached_at < t /\ \A x \in c : e.cached_at <= x.cached_at}
    IN  IF old = {} THEN {c} ELSE {c \ {e} : e \in old}

\* MultiTierCache::evict_lru: the caches it can leave. The entry removed is
\* the first, in the map's iteration order, among those accessed longest ago,
\* and none when no entry was accessed before this instant.
EvictLru(c, t) ==
    LET old == {e \in c : e.last_accessed < t
                            /\ \A x \in c : e.last_accessed <= x.last_accessed}
    IN  IF old = {} THEN {c} ELSE {c \ {e} : e \in old}

\* put, its first half: if self.l1_cache.len() >= l1_max_entries { evict_lru() }
PutEvict(cfg, c, t) ==
    IF Cardinality(c) >= cfg.l1_max_entries THEN EvictLru(c, t) ELSE {c}

\* put, its second half: self.l1_cache.insert(key, CachedResult::new(..))
PutInsert(c, key, response, t) ==
    {e \in c : e.key # key} \cup {CachedResult(key, response, t)}

\* MultiTierCache::put: the caches it can leave
CachePut(cfg, c, q, response, t) ==
    IF TooShort(cfg, q) THEN {c}
    ELSE {PutInsert(c1, CacheKey(q), response, t) : c1 \in PutEvict(cfg, c, t)}

\* the cleanup task's pass: cache.retain(|_, entry| !entry.is_expired(ttl))
RetainFresh(c, ttl, t) == {e \in c : ~IsExpired(e, ttl, t)}

----------------------------------------------------------------------------
(* The stores after a completed full index of a workspace *)

vars == <<disk, writerDocs, committed, readerDocs, meta, vstore, semantic,
          cache, metrics, now, events, lock, pc, local, embedded, issued,
          handled, changes, faults, results, out, prev, callers, watch, counter,
          qdrant, dbdir, direct, stopping>>

Tasks == {"events", "full", "full2"}

\* the tasks that run index_workspaces: the call of start(), and a second
\* call made while the first one runs
FullTasks == {"full", "full2"}

\* index_directory: repository is the name of the workspace root
RootRepository == FileName(Root)

\* FileMetadata.hash: blake3::hash(content.as_bytes()).to_string()
ContentHash(c) == Blake3Hex(ContentText(c))

\* the documents index_directory adds for the files on disk, in walk order
FullIndexDocs(dsk) ==
    LET files == SelectSeq(WalkOrder, LAMBDA p : dsk[p] # NoFile)
    IN  [i \in DOMAIN files |-> Doc(files[i], RootRepository, dsk[files[i]])]

FullIndexMeta(dsk) ==
    [p \in Paths |-> IF dsk[p] = NoFile THEN NoMeta ELSE ContentHash(dsk[p])]

FullIndexPoints(dsk, available) ==
    IF available
    THEN UNION {FilePoints(p, dsk[p]) : p \in {x \in Paths : dsk[x] # NoFile}}
    ELSE {}

\* the locals of an indexing task: the call it serves (kind), the file it is
\* working on, and for the full index the files still to do
NoJob == [kind |-> "none", path |-> <<>>, content |-> NoFile,
          before |-> FALSE, files |-> <<>>]

IdleTasks == [t \in Tasks |-> "idle"]

\* the tasks that call search() at the same time
Callers == {"s1", "s2"}

NoCall == [pc |-> "idle", query |-> None, response |-> None]
IdleCallers == [c \in Callers |-> NoCall]

\* the workspace roots the indexer watches (Config::workspace_roots)
WatchRoots == {Root}

\* the watch state after start_watching() has returned on a stopped indexer
\* with every watch_directory call succeeding
Watching ==
    [watching |-> TRUE, watcher_handles |-> 1,
     debouncer_handles |-> [r \in WatchRoots |-> 1], shutdown_tx |-> TRUE]

\* no QdrantManager::new call is under way
NoConnect ==
    [pc |-> "none", enable |-> TRUE, env_url |-> <<>>, url |-> <<>>,
     todo |-> <<>>, call |-> 0, retry_count |-> 0, max_retries |-> 0,
     delay |-> 0, attempts |-> <<>>, sleeps |-> <<>>, client |-> <<>>]

\* no component has been called directly
NoDirect == [fn |-> "none", n |-> 0]

\* a forwarding thread of watch_directory waiting in event_rx.recv()
Receiving == [at |-> "recv", event |-> <<>>]

\* stop_watching() has not been called: the shutdown channel is empty, the
\* event processor runs, every forwarding thread waits for a debounced event
NotStopping ==
    [call |-> "none", shutdown_rx |-> 0, processor |-> "running",
     forward |-> [r \in WatchRoots |-> Receiving]]

\* the processes that open the metadata store of one cache directory
StoreProcesses == {"engine", "other"}

\* the store's directory once StorageBackend::new has returned in the
\* engine's process: the LOCK file exists and the engine holds its lock
StoreOpened ==
    [lock_file |-> TRUE, locked_by |-> {"engine"}, orphaned |-> {},
     writers |-> {"engine"},
     result |-> [p \in StoreProcesses |-> IF p = "engine" THEN "ok" ELSE "none"]]

\* the watch state of Indexer::new, and after stop_watching() has returned
NotWatching ==
    [watching |-> FALSE, watcher_handles |-> 0,
     debouncer_handles |-> [r \in WatchRoots |-> 0], shutdown_tx |-> FALSE]
NoLocals == [t \in Tasks |-> NoJob]
ZeroMetrics == [l1_hits |-> 0, l1_misses |-> 0, total_queries |-> 0]

----------------------------------------------------------------------------
(* The search engine over a quiescent index *)

\* the workspaces the engine is started on
Workspace(a, b, c) == [p \in Paths |-> IF p = PathA THEN a ELSE IF p = PathB THEN b ELSE c]

Workspaces ==
    {Workspace(NoFile, NoFile, NoFile), Workspace("c1", NoFile, NoFile),
     Workspace("c2", "c2", "c3"), Workspace("c4", NoFile, "c1"),
     Workspace("c3", "c1", "c2"), Workspace("c5", NoFile, NoFile)}

InitSearch ==
    /\ disk \in Workspaces
    /\ semantic \in BOOLEAN
    /\ writerDocs = FullIndexDocs(disk)
    /\ committed = writerDocs
    /\ readerDocs = committed
    /\ meta = FullIndexMeta(disk)
    /\ vstore = FullIndexPoints(disk, semantic)
    /\ cache = {}
    /\ metrics = ZeroMetrics
    /\ now = 0
    /\ events = <<>>
    /\ lock = None
    /\ pc = IdleTasks
    /\ local = NoLocals
    /\ embedded = [p \in Paths |-> IF semantic THEN disk[p] ELSE NoFile]
    /\ issued = vstore
    /\ handled = None
    /\ changes = 0
    /\ faults = 0
    /\ results = None
    /\ out = None
    /\ prev = None
    /\ callers = IdleCallers
    /\ watch = Watching
    /\ counter = 1
    /\ qdrant = NoConnect
    /\ dbdir = StoreOpened
    /\ direct = NoDirect
    /\ stopping = NotStopping

indexVars == <<disk, writerDocs, committed, readerDocs, meta, vstore, semantic,
               events, lock, pc, local, embedded, issued, handled, changes,
               faults, callers, watch, counter, qdrant, dbdir, direct, stopping>>

\* the caller pages through one query: every call differs from the first
\* in its offset only
SameBase(q, r) == [q EXCEPT !.offset = 0] = [r EXCEPT !.offset = 0]

\* what search() returns when the retriever fails
SearchError(q) == [query |-> q, error |-> "InvalidQuery"]

\* SearchEngine::search
SearchCall(q) ==
    /\ metrics.total_queries < MaxQueries
    /\ LET got == CacheGet(DefaultCacheConfig, cache, metrics, q, now)
       IN  IF IsSome(got.response)
           THEN /\ out' = Some([Unwrap(got.response) EXCEPT !.from_cache = TRUE])
                /\ cache' = got.cache
                /\ metrics' = got.metrics
                /\ results' = None
           ELSE IF RetrieverFails(q)
           THEN /\ out' = Some(SearchError(q))
                /\ cache' = got.cache
                /\ metrics' = got.metrics
                /\ results' = None
           ELSE \E list \in Retrieve(q, readerDocs, meta, disk, vstore, semantic) :
                /\ results' = Some(list)
                /\ out' = Some(Response(q, list, FALSE))
                /\ cache' \in CachePut(DefaultCacheConfig, got.cache, q,
                                       Response(q, list, FALSE), now)
                /\ metrics' = got.metrics
    /\ prev' = out
    /\ UNCHANGED <<now, indexVars>>

\* a call of search() by a caller who pages through one query
Search(q) ==
    /\ IsSome(out) => SameBase(q, Unwrap(out).query)
    /\ SearchCall(q)

\* time passes
Tick ==
    /\ now + ClockStep <= MaxTicks * ClockStep
    /\ now' = now + ClockStep
    /\ UNCHANGED <<cache, metrics, results, out, prev, indexVars>>

\* the cleanup task started by MultiTierCache::new, one pass
CleanupExpired ==
    /\ cache' = RetainFresh(cache, DefaultCacheConfig.l1_ttl, now)
    /\ cache' # cache
    /\ UNCHANGED <<now, metrics, results, out, prev, indexVars>>

\* SearchEngine::reindex
SearchReindex ==
    /\ cache # {}
    /\ cache' = {}
    /\ UNCHANGED <<now, metrics, results, out, prev, indexVars>>

NextSearch ==
    \/ \E q \in Queries : Search(q)
    \/ SearchReindex

SpecSearch == InitSearch /\ [][NextSearch]_vars

\* The cache over time: the searches are symbol queries without filters
TimedQueries ==
    {q \in Queries : q.mode = "Symbol" /\ q.repositories = None
                        /\ q.file_patterns = None}

NextCache ==
    \/ \E q \in TimedQueries : Search(q)
    \/ Tick
    \/ CleanupExpired
    \/ SearchReindex

SpecCache == InitSearch /\ [][NextCache]_vars

----------------------------------------------------------------------------
(* The indexer: the event processor and the full index, sharing the writer *)

searchVars == <<readerDocs, cache, metrics, now, results, out, prev, callers,
                watch, counter, qdrant, dbdir, direct, stopping>>

\* The engine has been constructed and start_watching has returned: the
\* stores are empty, the event processor waits for events and
\* index_workspaces is about to walk the workspace.
InitIndex ==
    /\ disk = Workspace("c2", NoFile, "c3")
    /\ semantic \in BOOLEAN
    /\ writerDocs = <<>>
    /\ committed = <<>>
    /\ readerDocs = <<>>
    /\ meta = [p \in Paths |-> NoMeta]
    /\ vstore = {}
    /\ cache = {}
    /\ metrics = ZeroMetrics
    /\ now = 0
    /\ events = <<>>
    /\ lock = None
    /\ pc = [t \in Tasks |-> IF t = "full" THEN "walk" ELSE "idle"]
    /\ local = [t \in Tasks |-> IF t = "full" THEN [NoJob EXCEPT !.kind = "Batch"]
                                ELSE NoJob]
    /\ embedded = [p \in Paths |-> NoFile]
    /\ issued = {}
    /\ handled = None
    /\ changes = 0
    /\ faults = 0
    /\ results = None
    /\ out = None
    /\ prev = None
    /\ callers = IdleCallers
    /\ watch = Watching
    /\ counter = 1
    /\ qdrant = NoConnect
    /\ dbdir = StoreOpened
    /\ direct = NoDirect
    /\ stopping = NotStopping

FileEvent(kind, path) == [kind |-> kind, path |-> path]

\* a debouncer is live for the root the file is under
Watched(p) ==
    \E r \in WatchRoots : StartsWithAt(p, r, 1) /\ watch.debouncer_handles[r] > 0

\* a file is written on disk; the watcher sends Created or Modified
WriteFile(p, c) ==
    /\ Watched(p)
    /\ changes < MaxChanges
    /\ changes' = changes + 1
    /\ disk' = [disk EXCEPT ![p] = c]
    /\ events' = Append(events,
                    FileEvent(IF disk[p] = NoFile THEN "Created" ELSE "Modified", p))
    /\ UNCHANGED <<writerDocs, committed, meta, vstore, semantic, lock, pc, local,
                   embedded, issued, handled, faults, searchVars>>

\* a file is removed from disk; the watcher sends Deleted
RemoveFile(p) ==
    /\ Watched(p)
    /\ changes < MaxChanges
    /\ disk[p] # NoFile
    /\ changes' = changes + 1
    /\ disk' = [disk EXCEPT ![p] = NoFile]
    /\ events' = Append(events, FileEvent("Deleted", p))
    /\ UNCHANGED <<writerDocs, committed, meta, vstore, semantic, lock, pc, local,
                   embedded, issued, handled, faults, searchVars>>

\* a variant of the delete by path that deletes nothing
KeepPath(docs, path) == docs

WithoutPath(docs, path) == SelectSeq(docs, LAMBDA d : d.path # path)

HasDoc(docs, path) == \E i \in DOMAIN docs : docs[i].path = path

HasPoint(store, path) == \E x \in store : x.file_path = path

\* the repository name a task gives a file: index_directory uses the name of
\* the workspace root, process_file_event the name of the file's directory
RepositoryOf(t, path) == IF t \in FullTasks THEN RootRepository ELSE ParentName(path)

\* event_rx.recv() in the event processor, and the match on the event
Recv ==
    /\ watch.watcher_handles > 0
    /\ pc["events"] = "idle"
    /\ events # <<>>
    /\ events' = Tail(events)
    /\ local' = [local EXCEPT !["events"] =
                    [NoJob EXCEPT !.kind = Head(events).kind,
                                  !.path = Head(events).path,
                                  !.before = /\ HasDoc(committed, Head(events).path)
                                             /\ meta[Head(events).path] # NoMeta
                                             /\ HasPoint(vstore, Head(events).path)]]
    /\ pc' = [pc EXCEPT !["events"] =
                IF Head(events).kind = "Deleted" THEN "delete_file" ELSE "read"]
    /\ UNCHANGED <<disk, writerDocs, committed, meta, vstore, semantic, lock,
                   embedded, issued, handled, changes, faults, searchVars>>

\* the event the task has finished with, and whether it returned Ok
Handled(job, ok) == Some([kind |-> job.kind, path |-> job.path, ok |-> ok])

\* process_file_event, Created | Modified: tokio::fs::read_to_string(&path).await?
ReadFile ==
    /\ pc["events"] = "read"
    /\ IF disk[local["events"].path] = NoFile
       THEN /\ pc' = [pc EXCEPT !["events"] = "idle"]
            /\ handled' = Handled(local["events"], FALSE)
            /\ local' = [local EXCEPT !["events"] = NoJob]
       ELSE /\ pc' = [pc EXCEPT !["events"] = "index_file"]
            /\ local' = [local EXCEPT !["events"].content = disk[local["events"].path]]
            /\ UNCHANGED handled
    /\ UNCHANGED <<disk, writerDocs, committed, meta, vstore, semantic, events, lock,
                   embedded, issued, changes, faults, searchVars>>

\* a variant of the writer lock that admits a second holder
CanAcquireAlways(l) == TRUE

\* writer_arc.write().await returns when no task holds the lock
CanAcquire(l) == l = None

\* the tasks inside a write operation on the index
WritePcs == {"delete_term", "add_document", "delete_file_term", "committing"}

\* index_file, delete_file and commit: taking the writer lock
AcquireWriter(t) ==
    /\ pc[t] \in {"index_file", "delete_file", "commit"}
    /\ CanAcquire(lock)
    /\ lock' = Some(t)
    /\ pc' = [pc EXCEPT ![t] = CASE pc[t] = "index_file" -> "delete_term"
                                 [] pc[t] = "delete_file" -> "delete_file_term"
                                 [] pc[t] = "commit" -> "committing"]
    /\ UNCHANGED <<disk, writerDocs, committed, meta, vstore, semantic, events, local,
                   embedded, issued, handled, changes, faults, searchVars>>

\* index_file: writer.delete_term(path)
DeleteTerm(t) ==
    /\ pc[t] = "delete_term"
    /\ writerDocs' = WithoutPath(writerDocs, local[t].path)
    /\ pc' = [pc EXCEPT ![t] = "add_document"]
    /\ UNCHANGED <<disk, committed, meta, vstore, semantic, events, lock, local,
                   embedded, issued, handled, changes, faults, searchVars>>

\* index_file: writer.add_document(doc)?, and the lock guard goes out of scope
AddDocument(t) ==
    /\ pc[t] = "add_document"
    /\ writerDocs' = Append(writerDocs,
                        Doc(local[t].path, RepositoryOf(t, local[t].path), local[t].content))
    /\ lock' = None
    /\ pc' = [pc EXCEPT ![t] = "semantic"]
    /\ UNCHANGED <<disk, committed, meta, vstore, semantic, events, local,
                   embedded, issued, handled, changes, faults, searchVars>>

\* semantic_searcher.index_file -> EmbeddingPipeline::process_file
SemanticIndexFile(t) ==
    /\ pc[t] = "semantic"
    /\ IF semantic /\ ChunkFile(local[t].content, local[t].path) # <<>>
       THEN /\ vstore' = Upsert(vstore, FilePoints(local[t].path, local[t].content))
            /\ issued' = issued \cup FilePoints(local[t].path, local[t].content)
            /\ embedded' = [embedded EXCEPT ![local[t].path] = local[t].content]
       ELSE UNCHANGED <<vstore, issued, embedded>>
    /\ pc' = [pc EXCEPT ![t] = "store_metadata"]
    /\ UNCHANGED <<disk, writerDocs, committed, meta, semantic, events, lock, local,
                   handled, changes, faults, searchVars>>

\* storage.store_file_metadata(&path, metadata)
StoreFileMetadata(t) ==
    /\ pc[t] = "store_metadata"
    /\ meta' = [meta EXCEPT ![local[t].path] = ContentHash(local[t].content)]
    /\ pc' = [pc EXCEPT ![t] = IF t \in FullTasks THEN "next_file" ELSE "commit"]
    /\ UNCHANGED <<disk, writerDocs, committed, vstore, semantic, events, lock, local,
                   embedded, issued, handled, changes, faults, searchVars>>

\* delete_file: writer.delete_term(path), and the lock guard goes out of scope
DeleteFileTerm(t) ==
    /\ pc[t] = "delete_file_term"
    /\ writerDocs' = WithoutPath(writerDocs, local[t].path)
    /\ lock' = None
    /\ pc' = [pc EXCEPT ![t] = "commit"]
    /\ UNCHANGED <<disk, committed, meta, vstore, semantic, events, local,
                   embedded, issued, handled, changes, faults, searchVars>>

\* commit: writer.commit()?, the lock guard goes out of scope, and the call
\* returns to process_file_event, index_directory or index_workspaces
Commit(t) ==
    /\ pc[t] = "committing"
    /\ committed' = writerDocs
    /\ lock' = None
    /\ CASE local[t].kind \in {"Created", "Modified"} ->
                /\ pc' = [pc EXCEPT ![t] = "idle"]
                /\ handled' = Handled(local[t], TRUE)
                /\ local' = [local EXCEPT ![t] = NoJob]
         [] local[t].kind = "Deleted" ->
                /\ pc' = [pc EXCEPT ![t] = "delete_metadata"]
                /\ UNCHANGED <<handled, local>>
         [] local[t].kind = "Batch" ->
                /\ pc' = [pc EXCEPT ![t] = "commit"]
                /\ local' = [local EXCEPT ![t] = [NoJob EXCEPT !.kind = "Final"]]
                /\ UNCHANGED handled
         [] local[t].kind = "Final" ->
                /\ pc' = [pc EXCEPT ![t] = "done"]
                /\ UNCHANGED <<handled, local>>
    /\ UNCHANGED <<disk, writerDocs, meta, vstore, semantic, events,
                   embedded, issued, changes, faults, searchVars>>

\* process_file_event, Deleted: storage.delete_file_metadata(&path)
DeleteFileMetadata ==
    /\ pc["events"] = "delete_metadata"
    /\ meta' = [meta EXCEPT ![local["events"].path] = NoMeta]
    /\ pc' = [pc EXCEPT !["events"] = "idle"]
    /\ handled' = Handled(local["events"], TRUE)
    /\ local' = [local EXCEPT !["events"] = NoJob]
    /\ UNCHANGED <<disk, writerDocs, committed, vstore, semantic, events, lock,
                   embedded, issued, changes, faults, searchVars>>

\* index_directory: file_walker.walk_directory(path); without files there is
\* no batch, and index_workspaces goes on to its commit
Walk(t) ==
    /\ pc[t] = "walk"
    /\ LET files == SelectSeq(WalkOrder, LAMBDA p : disk[p] # NoFile)
       IN  IF files = <<>>
           THEN /\ pc' = [pc EXCEPT ![t] = "commit"]
                /\ local' = [local EXCEPT ![t] = [NoJob EXCEPT !.kind = "Final"]]
           ELSE /\ pc' = [pc EXCEPT ![t] = "read_batch"]
                /\ local' = [local EXCEPT ![t].files =
                                [i \in DOMAIN files |-> [path |-> files[i], content |-> NoFile]]]
    /\ UNCHANGED <<disk, writerDocs, committed, meta, vstore, semantic, events, lock,
                   embedded, issued, handled, changes, faults, searchVars>>

\* index_directory: the batch is read; a file that cannot be read gives String::new()
ReadBatch(t) ==
    /\ pc[t] = "read_batch"
    /\ local' = [local EXCEPT ![t].files =
                    [i \in DOMAIN @ |-> [path |-> @[i].path, content |-> disk[@[i].path]]]]
    /\ pc' = [pc EXCEPT ![t] = "next_file"]
    /\ UNCHANGED <<disk, writerDocs, committed, meta, vstore, semantic, events, lock,
                   embedded, issued, handled, changes, faults, searchVars>>

\* index_directory: the loop over the batch; a file without content is
\* skipped; after the batch (batch_num % 10 == 0) the index is committed
NextFile(t) ==
    /\ pc[t] = "next_file"
    /\ LET files == local[t].files
       IN  IF files = <<>>
           THEN /\ pc' = [pc EXCEPT ![t] = "commit"]
                /\ local' = [local EXCEPT ![t] = [NoJob EXCEPT !.kind = "Batch"]]
           ELSE IF Head(files).content = NoFile
           THEN /\ pc' = pc
                /\ local' = [local EXCEPT ![t].files = Tail(files)]
           ELSE /\ pc' = [pc EXCEPT ![t] = "index_file"]
                /\ local' = [local EXCEPT ![t].files = Tail(files),
                                          ![t].path = Head(files).path,
                                          ![t].content = Head(files).content]
    /\ UNCHANGED <<disk, writerDocs, committed, meta, vstore, semantic, events, lock,
                   embedded, issued, handled, changes, faults, searchVars>>

\* a variant of index_directory that returns at the first error
ResumeNowhere(p) == "done"

\* index_directory after the error of a step: `if let Err(e)` logs the
\* errors of index_file and store_file_metadata and goes on with the next
\* statement, the `?` of commit returns
ResumeAt(p) ==
    CASE p = "add_document" -> "semantic"
      [] p = "store_metadata" -> "next_file"
      [] p = "committing" -> "done"

\* A step returns an error. process_file_event returns at the first error of
\* index_file, store_file_metadata or commit (the `?`), and logs an error of
\* the semantic index; index_directory logs the errors of index_file, of the
\* semantic index and of store_file_metadata, and returns at an error of commit.
StepFails(t) ==
    /\ faults < MaxFaults
    /\ faults' = faults + 1
    /\ pc[t] \in {"add_document", "semantic", "store_metadata", "committing"}
    /\ lock' = IF pc[t] \in {"add_document", "committing"} THEN None ELSE lock
    /\ IF pc[t] = "semantic"
       THEN /\ pc' = [pc EXCEPT ![t] = "store_metadata"]
            /\ UNCHANGED <<local, handled>>
       ELSE IF t = "events"
       THEN /\ pc' = [pc EXCEPT ![t] = "idle"]
            /\ handled' = Handled(local[t], FALSE)
            /\ local' = [local EXCEPT ![t] = NoJob]
       ELSE /\ pc' = [pc EXCEPT ![t] = ResumeAt(pc[t])]
            /\ UNCHANGED <<local, handled>>
    /\ UNCHANGED <<disk, writerDocs, committed, meta, vstore, semantic, events,
                   embedded, issued, changes, searchVars>>

\* the files edited while the engine runs, and what is written to them
EditedPaths == {PathA, PathC}
EditedContents == {"c2", "c3"}

NextIndex ==
    \/ \E p \in EditedPaths, c \in EditedContents : WriteFile(p, c)
    \/ \E p \in EditedPaths : RemoveFile(p)
    \/ Recv
    \/ ReadFile
    \/ \E t \in Tasks : AcquireWriter(t)
    \/ \E t \in Tasks : DeleteTerm(t)
    \/ \E t \in Tasks : AddDocument(t)
    \/ \E t \in Tasks : SemanticIndexFile(t)
    \/ \E t \in Tasks : StoreFileMetadata(t)
    \/ DeleteFileTerm("events")
    \/ \E t \in Tasks : Commit(t)
    \/ DeleteFileMetadata
    \/ Walk("full")
    \/ ReadBatch("full")
    \/ NextFile("full")
    \/ \E t \in Tasks : StepFails(t)

SpecIndex == InitIndex /\ [][NextIndex]_vars

\* index_workspaces, its entry: INDEXING_COUNTER.fetch_add(1, SeqCst)
IndexWorkspaces(t) ==
    /\ pc[t] = "idle"
    /\ counter' = counter + 1
    /\ pc' = [pc EXCEPT ![t] = "walk"]
    /\ local' = [local EXCEPT ![t] = [NoJob EXCEPT !.kind = "Batch"]]
    /\ UNCHANGED <<disk, writerDocs, committed, readerDocs, meta, vstore, semantic,
                   cache, metrics, now, events, lock, embedded, issued, handled,
                   changes, faults, results, out, prev, callers, watch, qdrant,
                   dbdir, direct, stopping>>

\* Two calls of index_workspaces on the same files: the one of start() and
\* a second one that begins at any time. Every waiting task gets the
\* writer's lock in turn (tokio's RwLock is fair) and no step fails.
NextTwoFull ==
    \/ IndexWorkspaces("full2")
    \/ \E t \in FullTasks : Walk(t)
    \/ \E t \in FullTasks : ReadBatch(t)
    \/ \E t \in FullTasks : NextFile(t)
    \/ \E t \in FullTasks : AcquireWriter(t)
    \/ \E t \in FullTasks : DeleteTerm(t)
    \/ \E t \in FullTasks : AddDocument(t)
    \/ \E t \in FullTasks : SemanticIndexFile(t)
    \/ \E t \in FullTasks : StoreFileMetadata(t)
    \/ \E t \in FullTasks : Commit(t)

SpecTwoFull == InitIndex /\ [][NextTwoFull]_vars

\* a step on one file returns an error (not the commit)
FileStepFails(t) ==
    /\ pc[t] # "committing"
    /\ StepFails(t)

\* The full index of start() with files that cannot be read (removed after
\* the walk) and steps on a file that fail; the commits succeed.
NextSkip ==
    \/ \E p \in Paths : RemoveFile(p)
    \/ Walk("full")
    \/ ReadBatch("full")
    \/ NextFile("full")
    \/ AcquireWriter("full")
    \/ DeleteTerm("full")
    \/ AddDocument("full")
    \/ SemanticIndexFile("full")
    \/ StoreFileMetadata("full")
    \/ Commit("full")
    \/ FileStepFails("full")

SpecSkip == InitIndex /\ [][NextSkip]_vars

\* The indexed workspace is indexed again by index_workspaces while the
\* event processor follows a file that changes; no step fails.
NextUpdate ==
    \/ IndexWorkspaces("full")
    \/ \E p \in EditedPaths, c \in EditedContents : WriteFile(p, c)
    \/ Recv
    \/ ReadFile
    \/ Walk("full")
    \/ ReadBatch("full")
    \/ NextFile("full")
    \/ \E t \in {"events", "full"} : AcquireWriter(t)
    \/ \E t \in {"events", "full"} : DeleteTerm(t)
    \/ \E t \in {"events", "full"} : AddDocument(t)
    \/ \E t \in {"events", "full"} : SemanticIndexFile(t)
    \/ \E t \in {"events", "full"} : StoreFileMetadata(t)
    \/ \E t \in {"events", "full"} : Commit(t)

SpecUpdate == InitSearch /\ [][NextUpdate]_vars

\* RuneEngine::start: the watchers run, the first full index is under way,
\* files are written and removed meanwhile, and no step returns an error
NextStart ==
    \/ \E p \in EditedPaths, c \in EditedContents : WriteFile(p, c)
    \/ \E p \in EditedPaths : RemoveFile(p)
    \/ Recv
    \/ ReadFile
    \/ Walk("full")
    \/ ReadBatch("full")
    \/ NextFile("full")
    \/ \E t \in {"events", "full"} : AcquireWriter(t)
    \/ \E t \in {"events", "full"} : DeleteTerm(t)
    \/ \E t \in {"events", "full"} : AddDocument(t)
    \/ \E t \in {"events", "full"} : SemanticIndexFile(t)
    \/ \E t \in {"events", "full"} : StoreFileMetadata(t)
    \/ DeleteFileTerm("events")
    \/ \E t \in {"events", "full"} : Commit(t)
    \/ DeleteFileMetadata

SpecStart == InitIndex /\ [][NextStart]_vars

\* The event processor on an indexed workspace, with steps that fail
NextFail ==
    \/ \E p \in EditedPaths, c \in EditedContents : WriteFile(p, c)
    \/ \E p \in EditedPaths : RemoveFile(p)
    \/ Recv
    \/ ReadFile
    \/ AcquireWriter("events")
    \/ DeleteTerm("events")
    \/ AddDocument("events")
    \/ SemanticIndexFile("events")
    \/ StoreFileMetadata("events")
    \/ DeleteFileTerm("events")
    \/ Commit("events")
    \/ DeleteFileMetadata
    \/ StepFails("events")

SpecFail == InitSearch /\ [][NextFail]_vars

----------------------------------------------------------------------------
(* The watch lifecycle *)

\* a variant of the flag test that never finds the watchers running
AlreadyWatchingNever(w) == FALSE

\* self.watching.load(Ordering::SeqCst)
AlreadyWatching(w) == w.watching

\* Indexer::start_watching: the watch states the call can leave. A
\* watch_directory call that fails is logged and leaves the root without a
\* debouncer.
StartOutcomes(w) ==
    IF AlreadyWatching(w) THEN {w}
    ELSE {[watching |-> TRUE,
           watcher_handles |-> w.watcher_handles + 1,
           debouncer_handles |->
              [r \in WatchRoots |-> w.debouncer_handles[r] + IF r \in ok THEN 1 ELSE 0],
           shutdown_tx |-> TRUE] : ok \in SUBSET WatchRoots}

\* Indexer::start_watching; the event channel of a new watcher set is new
StartWatching ==
    /\ watch' \in StartOutcomes(watch)
    /\ events' = IF AlreadyWatching(watch) THEN events ELSE <<>>
    /\ UNCHANGED <<disk, writerDocs, committed, readerDocs, meta, vstore, semantic,
                   cache, metrics, now, lock, pc, local, embedded, issued, handled,
                   changes, faults, results, out, prev, callers, counter, qdrant,
                   dbdir, direct, stopping>>

\* Indexer::stop_watching: the shutdown signal is sent, the processor is
\* joined (it leaves its loop between two events, the events still in the
\* channel are dropped with it), the debouncers are dropped, the flag is
\* cleared. The call returns once the processor has finished its event.
StopWatching ==
    /\ watch.watching
    /\ pc["events"] = "idle"
    /\ watch' = [watching |-> FALSE, watcher_handles |-> 0,
                 debouncer_handles |-> [r \in WatchRoots |-> 0],
                 shutdown_tx |-> FALSE]
    /\ events' = <<>>
    /\ UNCHANGED <<disk, writerDocs, committed, readerDocs, meta, vstore, semantic,
                   cache, metrics, now, lock, pc, local, embedded, issued, handled,
                   changes, faults, results, out, prev, callers, counter, qdrant,
                   dbdir, direct, stopping>>

----------------------------------------------------------------------------
(* stop_watching() in steps: the call, the processor task and the forwarding
   threads, on the bounded event channel *)

\* the capacity of the event channel in the model (mpsc::channel(1000))
MaxChannel == 2

\* the files whose debounced Modify events keep arriving
TouchedPaths == {PathA}

stopFrame ==
    <<disk, writerDocs, committed, readerDocs, meta, vstore, semantic, cache,
      metrics, now, lock, pc, local, embedded, issued, handled, changes, faults,
      results, out, prev, callers, counter, qdrant, dbdir, direct>>

\* the forwarding thread has left its loop
Exited == [at |-> "exited", event |-> <<>>]

\* the debouncer of a root hands the forwarding thread the Modify event of
\* a file under it: event_rx.recv() returns, the thread goes on to send
Debounced(r, p) ==
    /\ watch.debouncer_handles[r] > 0
    /\ stopping.forward[r] = Receiving
    /\ StartsWithAt(p, r, 1)
    /\ disk[p] # NoFile
    /\ stopping' = [stopping EXCEPT !.forward[r] =
                        [at |-> "send", event |-> FileEvent("Modified", p)]]
    /\ UNCHANGED <<events, watch, stopFrame>>

\* tx.blocking_send(file_event): waits for room in the channel while the
\* receiver lives, fails once the receiver is dropped and the thread breaks
BlockingSend(r) ==
    /\ stopping.forward[r].at = "send"
    /\ IF stopping.processor = "running"
       THEN /\ Len(events) < MaxChannel
            /\ events' = Append(events, stopping.forward[r].event)
            /\ stopping' = [stopping EXCEPT !.forward[r] = Receiving]
       ELSE /\ events' = events
            /\ stopping' = [stopping EXCEPT !.forward[r] = Exited]
    /\ UNCHANGED <<watch, stopFrame>>

\* `while let Ok(event) = event_rx.recv()` ends when the debouncer, which
\* owns the sender, has been dropped
ForwardExit(r) ==
    /\ stopping.forward[r] = Receiving
    /\ watch.debouncer_handles[r] = 0
    /\ stopping' = [stopping EXCEPT !.forward[r] = Exited]
    /\ UNCHANGED <<events, watch, stopFrame>>

\* a variant of select! that polls the event branch first
SelectAfterEvents(shutdown_rx, queue) == shutdown_rx > 0 /\ queue = <<>>

\* tokio::select! polls its branches in random order: the shutdown branch
\* can be taken whenever a shutdown message waits, events pending or not
SelectShutdown(shutdown_rx, queue) == shutdown_rx > 0

\* the processor's select! takes the event branch
ProcessorRecv ==
    /\ stopping.processor = "running"
    /\ Recv
    /\ UNCHANGED stopping

\* the processor's select! takes the shutdown branch: the loop breaks, the
\* task ends and drops the receiver with the events still in the channel
ProcessorShutdown ==
    /\ stopping.processor = "running"
    /\ pc["events"] = "idle"
    /\ SelectShutdown(stopping.shutdown_rx, events)
    /\ stopping' = [stopping EXCEPT !.processor = "exited", !.shutdown_rx = 0]
    /\ events' = <<>>
    /\ UNCHANGED <<watch, stopFrame>>

\* stop_watching(): the flag is set, the sender is taken and the shutdown
\* message sent (the channel of capacity 1 is empty); the call then waits
\* for the processor's handle
StopSend ==
    /\ stopping.call = "none"
    /\ watch.watching
    /\ stopping.shutdown_rx < 1
    /\ stopping' = [stopping EXCEPT !.call = "join",
                        !.shutdown_rx = IF watch.shutdown_tx THEN 1 ELSE 0]
    /\ watch' = [watch EXCEPT !.shutdown_tx = FALSE]
    /\ UNCHANGED <<events, stopFrame>>

\* stop_watching(): handle.await returns once the processor task has ended;
\* the debouncers are dropped, the flag is cleared, the call returns
StopJoin ==
    /\ stopping.call = "join"
    /\ stopping.processor = "exited"
    /\ stopping' = [stopping EXCEPT !.call = "done"]
    /\ watch' = [watching |-> FALSE, watcher_handles |-> 0,
                 debouncer_handles |-> [r \in WatchRoots |-> 0],
                 shutdown_tx |-> FALSE]
    /\ UNCHANGED <<events, stopFrame>>

NextStop ==
    \/ \E r \in WatchRoots, p \in TouchedPaths : Debounced(r, p)
    \/ \E r \in WatchRoots : BlockingSend(r)
    \/ \E r \in WatchRoots : ForwardExit(r)
    \/ ProcessorRecv
    \/ ProcessorShutdown
    \/ ReadFile
    \/ AcquireWriter("events")
    \/ DeleteTerm("events")
    \/ AddDocument("events")
    \/ SemanticIndexFile("events")
    \/ StoreFileMetadata("events")
    \/ Commit("events")
    \/ StopSend
    \/ StopJoin

\* the engine runs without the vector store: the processor's semantic step
\* (`if let Some(searcher)`) does nothing
InitStop == InitSearch /\ ~semantic

SpecStop == InitStop /\ [][NextStop]_vars

\* a step of process_file_event in the processor task
ProcessorStep ==
    \/ ReadFile
    \/ AcquireWriter("events")
    \/ DeleteTerm("events")
    \/ AddDocument("events")
    \/ SemanticIndexFile("events")
    \/ StoreFileMetadata("events")
    \/ Commit("events")

\* a step of the forwarding thread of a root that needs no new event
ForwardStep(r) == BlockingSend(r) \/ ForwardExit(r)

\* Scheduling: a task or thread that can take a step takes it in the end;
\* select! picks at random among its ready branches, so a shutdown message
\* that waits each time the processor is back at select! is taken in the end
FairStop ==
    /\ WF_vars(ProcessorStep)
    /\ SF_vars(ProcessorShutdown)
    /\ WF_vars(StopJoin)
    /\ \A r \in WatchRoots : WF_vars(ForwardStep(r))

LiveStop == SpecStop /\ FairStop

----------------------------------------------------------------------------
(* Reindexing: the entry points, on an engine whose watchers are stopped *)

\* a file is written on disk while no watcher runs: no event is sent
EditUnwatched(p, c) ==
    /\ ~Watched(p)
    /\ changes < MaxChanges
    /\ disk[p] # c
    /\ changes' = changes + 1
    /\ disk' = [disk EXCEPT ![p] = c]
    /\ UNCHANGED <<writerDocs, committed, meta, vstore, semantic, events, lock, pc,
                   local, embedded, issued, handled, faults, searchVars>>

\* a file is removed from disk while no watcher runs: no event is sent
RemoveUnwatched(p) ==
    /\ ~Watched(p)
    /\ changes < MaxChanges
    /\ disk[p] # NoFile
    /\ changes' = changes + 1
    /\ disk' = [disk EXCEPT ![p] = NoFile]
    /\ UNCHANGED <<writerDocs, committed, meta, vstore, semantic, events, lock, pc,
                   local, embedded, issued, handled, faults, searchVars>>

\* the reader follows the commits (ReloadPolicy::OnCommitWithDelay)
ReaderReload ==
    /\ readerDocs # committed
    /\ readerDocs' = committed
    /\ UNCHANGED <<disk, writerDocs, committed, meta, vstore, semantic, events, lock,
                   pc, local, embedded, issued, handled, changes, faults,
                   cache, metrics, now, results, out, prev, callers, watch, counter,
                   qdrant, dbdir, direct, stopping>>

\* Indexer::reindex: index_workspaces() and optimize() (a commit), run to
\* the end with no other task on the index. Every file on disk is indexed
\* again (delete-by-path, add), embedded, and its metadata stored; the
\* query-result cache belongs to the search engine and is not touched.
IndexerReindex ==
    /\ pc = IdleTasks
    /\ lock = None
    /\ writerDocs' = SelectSeq(writerDocs, LAMBDA d : disk[d.path] = NoFile)
                        \o FullIndexDocs(disk)
    /\ committed' = writerDocs'
    /\ meta' = [p \in Paths |-> IF disk[p] = NoFile THEN meta[p]
                                 ELSE ContentHash(disk[p])]
    /\ vstore' = Upsert(vstore, FullIndexPoints(disk, semantic))
    /\ issued' = issued \cup FullIndexPoints(disk, semantic)
    /\ embedded' = [p \in Paths |->
                        IF semantic /\ disk[p] # NoFile /\ ChunkFile(disk[p], p) # <<>>
                        THEN disk[p] ELSE embedded[p]]
    /\ UNCHANGED <<disk, semantic, events, lock, pc, local, handled, changes, faults,
                   searchVars>>

\* RuneBridge::reindex: with the engine initialised (the engine of the model
\* is), engine.indexer().reindex()
BridgeReindex ==
    /\ IsSome(Some("engine"))
    /\ IndexerReindex

NextReindex ==
    \/ \E q \in TimedQueries : Search(q)
    \/ StopWatching
    \/ \E p \in EditedPaths, c \in EditedContents : EditUnwatched(p, c)
    \/ \E p \in EditedPaths : RemoveUnwatched(p)
    \/ ReaderReload
    \/ SearchReindex
    \/ IndexerReindex
    \/ BridgeReindex

SpecReindex == InitSearch /\ [][NextReindex]_vars

----------------------------------------------------------------------------
(* The running engine: searches while the event processor follows the files *)

\* the searches are literal queries without filters
LiveQueries ==
    {q \in Queries : q.mode = "Literal" /\ q.repositories = None
                        /\ q.file_patterns = None}

NextLive ==
    \/ \E q \in LiveQueries : Search(q)
    \/ \E p \in EditedPaths, c \in EditedContents : WriteFile(p, c)
    \/ Recv
    \/ ReadFile
    \/ AcquireWriter("events")
    \/ DeleteTerm("events")
    \/ AddDocument("events")
    \/ SemanticIndexFile("events")
    \/ StoreFileMetadata("events")
    \/ Commit("events")
    \/ ReaderReload

SpecLive == InitSearch /\ [][NextLive]_vars

\* The engine is restarted and the vector store cannot be reached this time
\* (the connection fails, or RUNE_ENABLE_SEMANTIC=false): the pipeline is
\* unavailable, the cache and its metrics are new, the points of the earlier
\* run are still in the store.
RestartUnavailable ==
    /\ semantic
    /\ pc = IdleTasks
    /\ events = <<>>
    /\ semantic' = FALSE
    /\ cache' = {}
    /\ metrics' = ZeroMetrics
    /\ writerDocs' = committed
    /\ readerDocs' = committed
    /\ UNCHANGED <<disk, committed, meta, vstore, now, events, lock, pc, local,
                   embedded, issued, handled, changes, faults, results, out, prev,
                   callers, watch, counter, qdrant, dbdir, direct, stopping>>

\* semantic and hybrid queries without filters, first page
OutageQueries ==
    {Query(m, None, None, l, 0) : m \in {"Semantic", "Hybrid"}, l \in 1..MaxLimit}

\* Searches and file events on an engine whose vector store goes away
NextOutage ==
    \/ \E q \in OutageQueries : Search(q)
    \/ RestartUnavailable
    \/ \E p \in EditedPaths, c \in EditedContents : WriteFile(p, c)
    \/ Recv
    \/ ReadFile
    \/ AcquireWriter("events")
    \/ DeleteTerm("events")
    \/ AddDocument("events")
    \/ SemanticIndexFile("events")
    \/ StoreFileMetadata("events")
    \/ Commit("events")
    \/ ReaderReload

SpecOutage == InitSearch /\ [][NextOutage]_vars

----------------------------------------------------------------------------
(* QdrantManager::new: the connection to the vector store *)

\* connection_attempts: the endpoints tried when QDRANT_URL gave no client
ConnectionAttempts ==
    <<"http://127.0.0.1:6334", "http://localhost:6334", "http://127.0.0.1:6333">>

\* the values of QDRANT_URL: not set, an endpoint of its own, the first default
EnvUrls == {None, Some("http://qdrant:6334"), Some(ConnectionAttempts[1])}

\* max_retries of the QDRANT_URL endpoint and of each fallback endpoint
EnvRetries == 3
FallbackRetries == 2

\* the first delay of connect_with_retry, in seconds
FirstDelay == 1

\* a variant of the back-off that does not grow
SameDelay(d) == d

\* delay *= 2
NextDelay(d) == d * 2

\* connect_with_retry(url, strategy, max) is entered by the manager q
EnterConnect(q, url, rest, max) ==
    [q EXCEPT !.pc = "connect", !.url = Some(url), !.todo = rest,
              !.call = q.call + 1, !.retry_count = 0, !.max_retries = max,
              !.delay = FirstDelay]

\* new returns a manager with the given client
Built(q, client) ==
    [q EXCEPT !.pc = "done", !.client = client]

\* connect_with_retry returned None: the next fallback endpoint, or no client
AfterNone(q) ==
    IF q.todo # <<>>
    THEN EnterConnect(q, Head(q.todo), Tail(q.todo), FallbackRetries)
    ELSE Built(q, None)

qdrantFrame ==
    <<disk, committed, meta, vstore, now, events, lock, pc, local, embedded,
      issued, handled, changes, faults, results, out, prev, callers, watch,
      counter, dbdir, direct, cache, metrics, writerDocs, readerDocs, stopping>>

\* the availability of the pipeline follows the manager once it is built
Availability(q) ==
    IF q.pc = "done" THEN IsSome(q.client) ELSE semantic

\* QdrantManager::new up to its first await
QdrantNew(enable, env) ==
    /\ qdrant.pc = "none"
    /\ LET q0 == [qdrant EXCEPT !.enable = enable, !.env_url = env]
           q1 == IF ~enable THEN Built(q0, None)
                 ELSE IF IsSome(env)
                      THEN EnterConnect(q0, Unwrap(env), ConnectionAttempts, EnvRetries)
                      ELSE EnterConnect(q0, ConnectionAttempts[1],
                                        Tail(ConnectionAttempts), FallbackRetries)
       IN  /\ qdrant' = q1
           /\ semantic' = Availability(q1)
    /\ UNCHANGED qdrantFrame

\* one turn of the loop of connect_with_retry: the client is built and its
\* health check passes (ok) or not
ConnectAttempt(ok) ==
    /\ qdrant.pc = "connect"
    /\ qdrant.retry_count < qdrant.max_retries
    /\ LET q0 == [qdrant EXCEPT
                    !.attempts = Append(@, [url |-> Unwrap(qdrant.url),
                                            call |-> qdrant.call, ok |-> ok])]
           q1 == IF ok THEN [q0 EXCEPT !.pc = "init_collection"]
                 ELSE LET q2 == [q0 EXCEPT !.retry_count = @ + 1]
                      IN  IF q2.retry_count < q2.max_retries
                          THEN [q2 EXCEPT !.pc = "sleep"]
                          ELSE AfterNone(q2)
       IN  /\ qdrant' = q1
           /\ semantic' = Availability(q1)
    /\ UNCHANGED qdrantFrame

\* tokio::time::sleep(delay) and the doubling of the delay
ConnectSleep ==
    /\ qdrant.pc = "sleep"
    /\ qdrant' = [qdrant EXCEPT
                    !.sleeps = Append(@, [delay |-> qdrant.delay,
                                          call |-> qdrant.call,
                                          after |-> Len(qdrant.attempts)]),
                    !.delay = NextDelay(@),
                    !.pc = "connect"]
    /\ UNCHANGED semantic
    /\ UNCHANGED qdrantFrame

\* init_collection on the connected client, and the return of new
InitCollection(ok) ==
    /\ qdrant.pc = "init_collection"
    /\ LET q1 == Built(qdrant, IF ok THEN qdrant.url ELSE None)
       IN  /\ qdrant' = q1
           /\ semantic' = Availability(q1)
    /\ UNCHANGED qdrantFrame

NextQdrant ==
    \/ \E enable \in BOOLEAN, env \in EnvUrls : QdrantNew(enable, env)
    \/ \E ok \in BOOLEAN : ConnectAttempt(ok)
    \/ ConnectSleep
    \/ \E ok \in BOOLEAN : InitCollection(ok)

SpecQdrant == InitSearch /\ [][NextQdrant]_vars

----------------------------------------------------------------------------
(* StorageBackend::new: the metadata store and its LOCK file *)

\* The directory of the store: lock_file says that the file LOCK exists,
\* locked_by are the processes holding the lock on that file, orphaned the
\* processes holding the lock on a LOCK file that was removed since, writers
\* the processes that have the store open for writing.

\* try_recover_lock: when LOCK exists and the read-only open succeeds
\* (ro_ok), the file is removed; the locks held on it stay with the removed
\* file
TryRecoverLock(d, ro_ok) ==
    IF d.lock_file /\ ro_ok
    THEN [d EXCEPT !.lock_file = FALSE, !.locked_by = {},
                   !.orphaned = d.orphaned \cup d.locked_by]
    ELSE d

\* DB::open by process p: LOCK is created if missing and locked; the open
\* fails when another process holds the lock on the file
DbOpen(d, p) ==
    IF d.locked_by \ {p} = {}
    THEN [d EXCEPT !.lock_file = TRUE, !.locked_by = {p},
                   !.writers = d.writers \cup {p}, !.result[p] = "ok"]
    ELSE [d EXCEPT !.result[p] = "error"]

storeFrame ==
    <<disk, committed, meta, vstore, now, events, lock, pc, local, embedded,
      issued, handled, changes, faults, results, out, prev, callers, watch,
      counter, qdrant, direct, semantic, cache, metrics, writerDocs, readerDocs, stopping>>

\* StorageBackend::new in process p
StorageNew(p, ro_ok) ==
    /\ p \notin dbdir.writers
    /\ dbdir' = DbOpen(TryRecoverLock(dbdir, ro_ok), p)
    /\ UNCHANGED storeFrame

\* process p drops its StorageBackend, or ends: its locks are released, the
\* LOCK file stays
StorageDrop(p) ==
    /\ p \in dbdir.writers
    /\ dbdir' = [dbdir EXCEPT !.writers = @ \ {p}, !.locked_by = @ \ {p},
                              !.orphaned = @ \ {p}, !.result[p] = "none"]
    /\ UNCHANGED storeFrame

NextStore ==
    \/ \E p \in StoreProcesses, ro_ok \in BOOLEAN : StorageNew(p, ro_ok)
    \/ \E p \in StoreProcesses : StorageDrop(p)

SpecStore == InitSearch /\ [][NextStore]_vars

----------------------------------------------------------------------------
(* Direct calls of the components, as their unit tests make them *)

directFrame ==
    <<disk, committed, meta, vstore, now, events, lock, pc, local, embedded,
      issued, handled, changes, faults, results, out, prev, callers, watch,
      counter, qdrant, dbdir, semantic, cache, metrics, readerDocs, stopping>>

\* the number of direct calls in one behaviour
MaxDirect == 2

\* Result<T>
Ok(v) == [ok |-> TRUE, value |-> v]
Err(e) == [ok |-> FALSE, value |-> e]

----------------------------------------------------------------------------
(* Language detection and symbol extraction *)

\* enum Language, by to_str()
Languages ==
    {"rust", "javascript", "typescript", "python", "go", "java", "cpp", "c",
     "csharp", "ruby", "php", "swift", "kotlin", "scala", "haskell", "elixir",
     "html", "css", "markdown", "json", "yaml", "toml", "xml", "shell",
     "unknown"}

\* Language::supports_tree_sitter
SupportsTreeSitter(language) ==
    language \in {"rust", "javascript", "typescript", "python", "go", "java",
                  "cpp", "c", "csharp", "ruby", "php", "html", "css", "json",
                  "yaml", "toml"}

\* SymbolExtractor::get_tree_sitter_language: the grammar, or an error
GetTreeSitterLanguage(language) ==
    CASE language = "rust" -> Ok("tree_sitter_rust")
      [] language = "javascript" -> Ok("tree_sitter_javascript")
      [] language = "typescript" -> Ok("tree_sitter_typescript")
      [] language = "python" -> Ok("tree_sitter_python")
      [] language = "go" -> Ok("tree_sitter_go")
      [] language = "java" -> Ok("tree_sitter_java")
      [] language \in {"cpp", "c"} -> Ok("tree_sitter_cpp")
      [] OTHER -> Err("Unsupported language for tree-sitter")

\* the symbols of a parsed file: one for each definition line
SymbolsOf(c) ==
    LET ls == Lines(c)
    IN  SelectSeq([i \in DOMAIN ls |-> [line |-> i, def |-> ls[i].def]],
                  LAMBDA x : x.def)

\* SymbolExtractor::extract_symbols
ExtractSymbols(c, language) ==
    IF ~SupportsTreeSitter(language) THEN Ok(<<>>)
    ELSE IF ~GetTreeSitterLanguage(language).ok
         THEN GetTreeSitterLanguage(language)
         ELSE Ok(SymbolsOf(c))

\* the files given to index_file directly
SourceFiles ==
    {PathA, PathB,
     <<"/", "w", "/", "d", ".", "j", "s", "o", "n">>,
     <<"/", "w", "/", "e", ".", "y", "a", "m", "l">>,
     <<"/", "w", "/", "f", ".", "r", "b">>,
     <<"/", "w", "/", "g", ".", "m", "d">>,
     <<"/", "w", "/", "h", ".", "t", "x", "t">>,
     <<"/", "w", "/", "i", ".", "k", "t">>}

\* Language::from_extension, on the extensions of SourceFiles
FromExtension(ext) ==
    CASE ext \in {<<"j", "s">>, <<"j", "s", "x">>} -> "javascript"
      [] ext = <<"j", "s", "o", "n">> -> "json"
      [] ext = <<"y", "a", "m", "l">> -> "yaml"
      [] ext = <<"r", "b">> -> "ruby"
      [] ext = <<"m", "d">> -> "markdown"
      [] ext = <<"k", "t">> -> "kotlin"
      [] OTHER -> "unknown"

\* LanguageDetector::detect: every file of the model has an extension, and
\* no content of the model begins with a shebang
Detect(path, c) == FromExtension(Extension(path))

\* TantivyIndexer::index_file up to the writer: Ok(the document) or the error
\* of the symbol extraction
IndexFileResult(path, repository, c) ==
    LET language == Detect(path, c)
        symbols == IF SupportsTreeSitter(language)
                   THEN ExtractSymbols(c, language)
                   ELSE Ok(<<>>)
    IN  IF symbols.ok THEN Ok(Doc(path, repository, c)) ELSE symbols

\* a direct call of SymbolExtractor::extract_symbols
ExtractSymbolsCall(c, language) ==
    /\ direct.n < MaxDirect
    /\ direct' = [fn |-> "extract_symbols", n |-> direct.n + 1, content |-> c, language |-> language,
                  ret |-> ExtractSymbols(c, language)]
    /\ UNCHANGED <<writerDocs, directFrame>>

\* a direct call of TantivyIndexer::index_file
IndexFileCall(path, c) ==
    /\ direct.n < MaxDirect
    /\ CanAcquire(lock)
    /\ LET r == IndexFileResult(path, RootRepository, c)
       IN  /\ direct' = [fn |-> "index_file", n |-> direct.n + 1, path |-> path, content |-> c,
                         language |-> Detect(path, c), ret |-> r.ok]
           /\ writerDocs' = IF r.ok
                            THEN Append(WithoutPath(writerDocs, path), r.value)
                            ELSE writerDocs
    /\ UNCHANGED directFrame

NextSymbols ==
    \/ \E c \in EditedContents, language \in Languages : ExtractSymbolsCall(c, language)
    \/ \E path \in SourceFiles, c \in EditedContents : IndexFileCall(path, c)

SpecSymbols == InitIndex /\ [][NextSymbols]_vars

----------------------------------------------------------------------------
(* FuzzyMatcher: fuzzy matches of a query term in a line of text *)

\* the longest text given to the matcher
MaxText == 4

\* the characters of the texts: letters, an upper-case letter, a blank
TextChars == {"f", "o", "x", "F", " "}

Texts == UNION {[1..n -> TextChars] : n \in 1..MaxText}

FuzzyTerms == {<<"f", "o", "o">>, <<"f", "o">>}

\* char::to_lowercase and str::to_lowercase
ToLower(ch) == IF ch = "F" THEN "f" ELSE ch

Lower(s) == [i \in DOMAIN s |-> ToLower(s[i])]

\* FuzzyConfig: the threshold is the fraction threshold_num / threshold_den;
\* the default has 0.75 and 2, the others are set by RUNE_FUZZY_THRESHOLD
\* and RUNE_FUZZY_MAX_DISTANCE; use_jaro_winkler is false (the default)
FuzzyConfig(num, den, dist) ==
    [threshold_num |-> num, threshold_den |-> den, max_edit_distance |-> dist,
     enabled |-> TRUE]

DefaultFuzzyConfig == FuzzyConfig(3, 4, 2)

FuzzyConfigs ==
    {DefaultFuzzyConfig, FuzzyConfig(1, 4, 2), FuzzyConfig(1, 4, 1),
     [DefaultFuzzyConfig EXCEPT !.enabled = FALSE]}

\* strsim::levenshtein
RECURSIVE Levenshtein(_, _)
Levenshtein(a, b) ==
    IF a = <<>> THEN Len(b)
    ELSE IF b = <<>> THEN Len(a)
    ELSE IF Head(a) = Head(b) THEN Levenshtein(Tail(a), Tail(b))
    ELSE 1 + Min(Levenshtein(Tail(a), Tail(b)),
                 Min(Levenshtein(Tail(a), b), Levenshtein(a, Tail(b))))

\* strsim::normalized_levenshtein as a fraction: 1 - distance / longest
Similarity2(a, b) ==
    LET longest == IF Len(a) >= Len(b) THEN Len(a) ELSE Len(b)
    IN  IF longest = 0 THEN [num |-> 1, den |-> 1]
        ELSE [num |-> longest - Levenshtein(a, b), den |-> longest]

\* a variant of the test of a candidate that leaves the distance out
GoodMatchBySimilarity(cfg, sim, dist) ==
    sim.num * cfg.threshold_den >= cfg.threshold_num * sim.den

\* similarity >= similarity_threshold && edit_distance <= max_edit_distance
GoodMatch(cfg, sim, dist) ==
    /\ sim.num * cfg.threshold_den >= cfg.threshold_num * sim.den
    /\ dist <= cfg.max_edit_distance

\* c.is_whitespace() || c.is_ascii_punctuation(), on TextChars
IsSeparator(ch) == ch = " "

\* text.split(separator).filter(not empty): the words of the text from
\* position i on, word being the word under way
RECURSIVE SplitWords(_, _, _)
SplitWords(text, i, word) ==
    IF i > Len(text) THEN (IF word = <<>> THEN <<>> ELSE <<word>>)
    ELSE IF IsSeparator(text[i])
         THEN (IF word = <<>> THEN <<>> ELSE <<word>>) \o SplitWords(text, i + 1, <<>>)
         ELSE SplitWords(text, i + 1, Append(word, text[i]))

\* str::find: the offset of the first occurrence, unwrap_or(0)
FindOr0(text, word) ==
    LET S == {i \in 1..Len(text) : StartsWithAt(text, word, i)}
    IN  IF S = {} THEN 0 ELSE (CHOOSE i \in S : \A j \in S : i <= j) - 1

FuzzyMatch(matched, query, position) ==
    [matched_text |-> matched, similarity |-> Similarity2(query, matched),
     edit_distance |-> Levenshtein(query, matched), position |-> position]

\* the loop over the words
WordMatches(cfg, query, text) ==
    LET words == SplitWords(text, 1, <<>>)
        all == [i \in DOMAIN words |-> FuzzyMatch(words[i], query, FindOr0(text, words[i]))]
    IN  SelectSeq(all, LAMBDA m :
            /\ ~(Len(m.matched_text) < 2 /\ Len(query) > 2)
            /\ GoodMatch(cfg, m.similarity, m.edit_distance))

\* find_substring_fuzzy_matches: the windows of one size, from left to right
WindowMatches(cfg, query, text, size) ==
    LET all == [k \in 1..(IF Len(text) >= size THEN Len(text) - size + 1 ELSE 0) |->
                  FuzzyMatch(SubSeq(text, k, k + size - 1), query, k - 1)]
    IN  SelectSeq(all, LAMBDA m : GoodMatch(cfg, m.similarity, m.edit_distance))

\* find_substring_fuzzy_matches (max_edit_distance is less than the length
\* of the query in the configurations of the model)
SubstringMatches(cfg, query, text) ==
    IF Len(query) < 3 \/ Len(query) > 30 THEN <<>>
    ELSE LET lo == Len(query) - cfg.max_edit_distance
             hi == Len(query) + cfg.max_edit_distance
         IN  Flatten([w \in 1..(hi - lo + 1) |->
                        WindowMatches(cfg, query, text, lo + w - 1)])

\* sort_by similarity, highest first; the sort is stable
RECURSIVE InsertBySimilarity(_, _)
InsertBySimilarity(sorted, m) ==
    IF sorted = <<>> THEN <<m>>
    ELSE IF Head(sorted).similarity.num * m.similarity.den
              >= m.similarity.num * Head(sorted).similarity.den
         THEN <<Head(sorted)>> \o InsertBySimilarity(Tail(sorted), m)
         ELSE <<m>> \o sorted

RECURSIVE SortBySimilarity(_)
SortBySimilarity(ms) ==
    IF ms = <<>> THEN <<>>
    ELSE InsertBySimilarity(SortBySimilarity(SubSeq(ms, 1, Len(ms) - 1)), ms[Len(ms)])

\* dedup_by position: of consecutive matches at one position the first stays
RECURSIVE DedupByPosition(_)
DedupByPosition(ms) ==
    IF Len(ms) < 2 THEN ms
    ELSE IF ms[1].position = ms[2].position
         THEN DedupByPosition(<<ms[1]>> \o SubSeq(ms, 3, Len(ms)))
         ELSE <<ms[1]>> \o DedupByPosition(Tail(ms))

\* FuzzyMatcher::find_fuzzy_matches
FindFuzzyMatches(cfg, query, text) ==
    IF ~cfg.enabled \/ query = <<>> \/ text = <<>> THEN <<>>
    ELSE LET q == Lower(query)
             t == Lower(text)
             words == WordMatches(cfg, q, t)
             found == IF words = <<>> THEN SubstringMatches(cfg, q, t) ELSE words
         IN  DedupByPosition(SortBySimilarity(found))

\* find_matches_in_content on one line, single-word term: the results of
\* match-type fuzzy
FuzzyResults(cfg, term, line) ==
    IF cfg.enabled /\ ~Contains(Lower(line), Lower(term))
    THEN LET ms == FindFuzzyMatches(cfg, term, line)
         IN  [i \in DOMAIN ms |->
                [line_number |-> 1, column |-> ms[i].position, content |-> line,
                 score |-> ms[i].similarity, match_type |-> "Fuzzy"]]
    ELSE <<>>

\* a search of one line for a term by a new searcher, with the matcher's
\* configuration
FindFuzzyCall(cfg, term, line) ==
    /\ direct.fn = "none"
    /\ direct' = [fn |-> "find_matches_in_content", n |-> direct.n, config |-> cfg,
                  term |-> term, line |-> line,
                  matches |-> FindFuzzyMatches(cfg, term, line),
                  ret |-> FuzzyResults(cfg, term, line)]
    /\ UNCHANGED <<writerDocs, directFrame>>

NextFuzzy ==
    \E cfg \in FuzzyConfigs, term \in FuzzyTerms, line \in Texts :
        FindFuzzyCall(cfg, term, line)

SpecFuzzy == InitIndex /\ [][NextFuzzy]_vars

----------------------------------------------------------------------------
(* The literal retriever called directly *)

\* a direct call of LiteralSearcher::search on the index the reader sees
LiteralSearchCall(q) ==
    /\ direct' = [fn |-> "literal_search", n |-> direct.n, query |-> q,
                  ret |-> LiteralSearch(q, readerDocs)]
    /\ UNCHANGED <<writerDocs, directFrame>>

LiteralQueries == {q \in Queries : q.mode = "Literal"}

NextLiteral ==
    \E q \in LiteralQueries : LiteralSearchCall(q)

SpecLiteral == InitSearch /\ [][NextLiteral]_vars

----------------------------------------------------------------------------
(* The syntax-tree chunker called on the semantic units of a file *)

\* AstChunkerConfig::default
TargetSize == 1500
MaxSize == 3000

\* split_large_unit: approximate chars per line
CharsPerLine == 80

\* the semantic units of one file, and the lines of one unit
MaxUnits == 3
MaxUnitLines == 2

AstChunkerConfig(include_imports) ==
    [target_size |-> TargetSize, max_size |-> MaxSize,
     include_imports |-> include_imports]

AstConfigs == {AstChunkerConfig(b) : b \in BOOLEAN}

\* the units the queries capture: kind, size in bytes, number of lines
UnitSizes == {100, 1000, 3100}
UnitShapes ==
    [kind : {"Import", "Function", "Class"}, size : UnitSizes, lines : 1..MaxUnitLines]

UnitLists == UNION {[1..n -> UnitShapes] : n \in 0..MaxUnits}

\* extract_semantic_units: the units sorted by start_byte, one after the
\* other in the file, rows counted from 1
RECURSIVE LayOut(_, _, _, _)
LayOut(shapes, byte, line, acc) ==
    IF shapes = <<>> THEN acc
    ELSE LET u == Head(shapes)
         IN  LayOut(Tail(shapes), byte + u.size + 1, line + u.lines,
                    Append(acc, [kind |-> u.kind,
                                 start_byte |-> byte, end_byte |-> byte + u.size,
                                 start_line |-> line, end_line |-> line + u.lines - 1]))

\* SemanticUnitKind::to_chunk_type
ToChunkType(kind) ==
    CASE kind \in {"Function", "Method"} -> "Function"
      [] kind \in {"Class", "Struct", "Enum", "Trait", "Interface"} -> "Class"
      [] kind = "Module" -> "Block"
      [] kind = "Import" -> "Import"

\* ChunkBuilder::new; the content is the list of the pieces pushed, each
\* with its length and the unit it is the text of (none for the context)
ChunkBuilderNew ==
    [content |-> <<>>, start_line |-> 1, end_line |-> 1, chunk_type |-> "Block"]

BuilderSize(b) == SumSeq([i \in DOMAIN b.content |-> b.content[i].len])

AddContext(b, len) ==
    [b EXCEPT !.content = Append(@, [len |-> len, unit |-> <<>>])]

\* ChunkBuilder::add_unit
AddUnit(b, unit) ==
    [b EXCEPT !.start_line = IF b.content = <<>> THEN unit.start_line ELSE @,
              !.chunk_type = IF b.content = <<>> THEN ToChunkType(unit.kind) ELSE @,
              !.end_line = unit.end_line,
              !.content = Append(@, [len |-> unit.end_byte - unit.start_byte,
                                     unit |-> <<unit>>])]

\* ChunkBuilder::build
Build(b) ==
    [content |-> b.content, start_line |-> b.start_line, end_line |-> b.end_line,
     chunk_type |-> b.chunk_type]

\* split_large_unit: chunks of target_size / 80 lines of the unit
RECURSIVE SplitLines(_, _, _, _)
SplitLines(cfg, unit, chunk_start, acc) ==
    LET lines == unit.end_line - unit.start_line + 1
        chunk_lines == cfg.target_size \div CharsPerLine
        chunk_end == Min(chunk_start + chunk_lines, lines)
    IN  IF chunk_start >= lines THEN acc
        ELSE SplitLines(cfg, unit, chunk_start + chunk_lines,
                Append(acc, [content |-> <<>>,
                             start_line |-> unit.start_line + chunk_start,
                             end_line |-> unit.start_line + chunk_end - 1,
                             chunk_type |-> ToChunkType(unit.kind)]))

SplitLargeUnit(cfg, unit) == SplitLines(cfg, unit, 0, <<>>)

\* the import context: the texts of the imports joined by "\n"
ImportContextLen(cfg, units) ==
    LET imports == SelectSeq(units, LAMBDA u : u.kind = "Import")
    IN  IF cfg.include_imports /\ imports # <<>>
        THEN SumSeq([i \in DOMAIN imports |->
                        imports[i].end_byte - imports[i].start_byte])
                + (Len(imports) - 1)
        ELSE 0

\* units_to_chunks: the loop over the units that are no imports
RECURSIVE ChunkUnits(_, _, _, _, _)
ChunkUnits(cfg, rest, context, chunks, current) ==
    IF rest = <<>>
    THEN IF current.content # <<>> THEN Append(chunks, Build(current)) ELSE chunks
    ELSE LET unit == Head(rest)
             unit_size == unit.end_byte - unit.start_byte
         IN  IF unit_size > cfg.max_size
             THEN ChunkUnits(cfg, Tail(rest), context,
                     (IF current.content # <<>>
                      THEN Append(chunks, Build(current)) ELSE chunks)
                        \o SplitLargeUnit(cfg, unit),
                     IF current.content # <<>> THEN ChunkBuilderNew ELSE current)
             ELSE IF /\ current.content # <<>>
                     /\ BuilderSize(current) + unit_size > cfg.target_size
                  THEN ChunkUnits(cfg, Tail(rest), context,
                          Append(chunks, Build(current)),
                          AddUnit(IF context > 0
                                  THEN AddContext(ChunkBuilderNew, context)
                                  ELSE ChunkBuilderNew, unit))
                  ELSE ChunkUnits(cfg, Tail(rest), context, chunks,
                                  AddUnit(current, unit))

\* AstChunker::units_to_chunks on a source of source_lines lines (not empty)
UnitsToChunks(cfg, units, source_lines) ==
    LET chunks == ChunkUnits(cfg, SelectSeq(units, LAMBDA u : u.kind # "Import"),
                             ImportContextLen(cfg, units), <<>>, ChunkBuilderNew)
    IN  IF chunks = <<>>
        THEN <<[content |-> <<>>, start_line |-> 1, end_line |-> source_lines,
                chunk_type |-> "Block"]>>
        ELSE chunks

\* the lines of the source the units were laid out in
SourceLines(shapes) ==
    IF shapes = <<>> THEN 1
    ELSE SumSeq([i \in DOMAIN shapes |-> shapes[i].lines])

\* a direct call of AstChunker::units_to_chunks
UnitsToChunksCall(cfg, shapes) ==
    /\ direct.fn = "none"
    /\ direct' = [fn |-> "units_to_chunks", n |-> direct.n, config |-> cfg,
                  units |-> LayOut(shapes, 0, 1, <<>>),
                  ret |-> UnitsToChunks(cfg, LayOut(shapes, 0, 1, <<>>),
                                        SourceLines(shapes))]
    /\ UNCHANGED <<writerDocs, directFrame>>

NextAst == \E cfg \in AstConfigs, shapes \in UnitLists : UnitsToChunksCall(cfg, shapes)

SpecAst == InitIndex /\ [][NextAst]_vars

\* The watchers are started and stopped while files change
NextWatch ==
    \/ StartWatching
    \/ StopWatching
    \/ \E p \in EditedPaths, c \in EditedContents : WriteFile(p, c)
    \/ \E p \in EditedPaths, c \in EditedContents : EditUnwatched(p, c)
    \/ Recv
    \/ ReadFile
    \/ AcquireWriter("events")
    \/ DeleteTerm("events")
    \/ AddDocument("events")
    \/ SemanticIndexFile("events")
    \/ StoreFileMetadata("events")
    \/ Commit("events")

SpecWatch == InitSearch /\ [][NextWatch]_vars

----------------------------------------------------------------------------
(* The cache key: callers whose queries differ in the repository filter *)

\* symbol queries for the first page, with no repository filter, with an
\* empty list of repositories, and with the repository of the workspace
KeyQueries ==
    {Query("Symbol", r, None, l, 0) :
        r \in {None, Some(<<>>), Some(<<RepoW>>)}, l \in 1..MaxLimit}

NextKey ==
    \/ \E q \in KeyQueries : SearchCall(q)
    \/ SearchReindex

SpecKey == InitSearch /\ [][NextKey]_vars

----------------------------------------------------------------------------
(* The cache at capacity, with callers of search() running at the same time *)

MaxEntries == 2      \* l1_max_entries of the cache under test
MaxCalls == 4        \* cache.get calls in one behaviour

\* a cache configured with a small capacity (MultiTierCache::new(config))
SmallCacheConfig == [DefaultCacheConfig EXCEPT !.l1_max_entries = MaxEntries]

\* the callers ask symbol queries without filters, from the first page on
LruQueries == {q \in TimedQueries : q.offset <= 1}

\* search() up to the cache miss: cache.get, and on a miss the retriever.
\* Instant::now() is strictly later at every cache operation.
CallGet(c, q) ==
    /\ callers[c].pc = "idle"
    /\ metrics.total_queries < MaxCalls
    /\ LET got == CacheGet(SmallCacheConfig, cache, metrics, q, now)
       IN  /\ cache' = got.cache
           /\ metrics' = got.metrics
           /\ IF IsSome(got.response)
              THEN callers' = callers
              ELSE \E list \in Retrieve(q, readerDocs, meta, disk, vstore, semantic) :
                     callers' = [callers EXCEPT ![c] =
                        [pc |-> "put", query |-> Some(q),
                         response |-> Some(Response(q, list, FALSE))]]
    /\ now' = now + 1
    /\ UNCHANGED <<results, out, prev, disk, writerDocs, committed, readerDocs, meta,
                   vstore, semantic, events, lock, pc, local, embedded, issued,
                   handled, changes, faults, watch, counter, qdrant, dbdir, direct, stopping>>

\* cache.put, up to the insert: the length check and evict_lru
CallPutEvict(c) ==
    /\ callers[c].pc = "put"
    /\ cache' \in PutEvict(SmallCacheConfig, cache, now)
    /\ callers' = [callers EXCEPT ![c].pc = "insert"]
    /\ now' = now + 1
    /\ UNCHANGED <<metrics, results, out, prev, disk, writerDocs, committed,
                   readerDocs, meta, vstore, semantic, events, lock, pc, local,
                   embedded, issued, handled, changes, faults, watch, counter, qdrant, dbdir, direct, stopping>>

\* cache.put, the insert; search() returns
CallPutInsert(c) ==
    /\ callers[c].pc = "insert"
    /\ cache' = PutInsert(cache, CacheKey(Unwrap(callers[c].query)),
                          Unwrap(callers[c].response), now)
    /\ callers' = [callers EXCEPT ![c] = NoCall]
    /\ now' = now + 1
    /\ UNCHANGED <<metrics, results, out, prev, disk, writerDocs, committed,
                   readerDocs, meta, vstore, semantic, events, lock, pc, local,
                   embedded, issued, handled, changes, faults, watch, counter, qdrant, dbdir, direct, stopping>>

NextLru ==
    \/ \E c \in Callers, q \in LruQueries : CallGet(c, q)
    \/ \E c \in Callers : CallPutEvict(c)
    \/ \E c \in Callers : CallPutInsert(c)

SpecLru == InitSearch /\ [][NextLru]_vars

----------------------------------------------------------------------------
(* Searches the cache does not admit: short texts and failing retrievers *)

WithText(q, text) == [q EXCEPT !.query = text]

\* queries with a text shorter than min_query_length
ShortQueries ==
    {WithText(Query(m, None, None, l, 0), ShortTerm) :
        m \in {"Literal", "Symbol"}, l \in 1..MaxLimit}

\* queries the regex retriever rejects
BadQueries ==
    {WithText(Query("Regex", None, None, l, 0), BadTerm) : l \in 1..MaxLimit}

AdmitQueries ==
    ShortQueries \cup BadQueries
        \cup {Query("Symbol", None, None, l, 0) : l \in 1..MaxLimit}

NextAdmit ==
    \/ \E q \in AdmitQueries : SearchCall(q)
    \/ SearchReindex

SpecAdmit == InitSearch /\ [][NextAdmit]_vars

----------------------------------------------------------------------------
(* Properties of the search engine *)

LastQuery == Unwrap(out).query
LastResults == Unwrap(out).results
PrevQuery == Unwrap(prev).query
PrevResults == Unwrap(prev).results

\* the last two calls asked for a page and for the page that follows it
ConsecutivePages ==
    /\ IsSome(prev) /\ IsSome(out)
    /\ SameBase(PrevQuery, LastQuery)
    /\ LastQuery.offset = PrevQuery.offset + PrevQuery.limit

\* C1: Pagination correctness. Against an unchanged index, in every mode, the
\* response for (offset, limit) and the response for (offset + limit, limit)
\* hold disjoint results, the second continues the first (it holds results
\* only when the first page is full), and both report the same total_matches.
PaginationCorrect ==
    ConsecutivePages =>
        /\ Range(PrevResults) \cap Range(LastResults) = {}
        /\ LastResults # <<>> => Len(PrevResults) = PrevQuery.limit
        /\ Unwrap(prev).total_matches = Unwrap(out).total_matches

\* the glob matching the filters are specified to do: the pattern matches the
\* whole text, `*` standing for any substring
RECURSIVE GlobMatchAt(_, _, _, _)
GlobMatchAt(pattern, pi, text, ti) ==
    IF pi > Len(pattern) THEN ti > Len(text)
    ELSE IF pattern[pi] = "*"
         THEN \/ GlobMatchAt(pattern, pi + 1, text, ti)
              \/ ti <= Len(text) /\ GlobMatchAt(pattern, pi, text, ti + 1)
    ELSE ti <= Len(text) /\ text[ti] = pattern[pi]
            /\ GlobMatchAt(pattern, pi + 1, text, ti + 1)

GlobMatch(pattern, text) == GlobMatchAt(pattern, 1, text, 1)

\* C3: Filter honesty. Every result returned satisfies the query's repository
\* filter (if any) and at least one file pattern (if any), `*` matching any
\* substring and a pattern without `*` matching exactly: with the pattern
\* *.js only files whose name ends in .js are returned.
FilterHonest ==
    IsSome(out) =>
        \A i \in DOMAIN LastResults :
            /\ IsSome(LastQuery.repositories) =>
                 LastResults[i].repository \in Range(Unwrap(LastQuery.repositories))
            /\ IsSome(LastQuery.file_patterns) =>
                 \E pattern \in Range(Unwrap(LastQuery.file_patterns)) :
                    \/ GlobMatch(pattern, LastResults[i].file_path)
                    \/ GlobMatch(pattern, FileName(LastResults[i].file_path))

\* the last call ran the hybrid retriever
HybridRan == IsSome(out) /\ IsSome(results) /\ LastQuery.mode = "Hybrid"

\* the lists the three retrievers return for the last query
RetrieverLists ==
    <<LiteralSearch(LastQuery, readerDocs), SymbolSearch(LastQuery, readerDocs),
      SemanticSearch(LastQuery, vstore, semantic)>>

\* the 1-based position of a key in a retriever's list, 0 when it is not there
RankIn(list, key) ==
    LET at == {i \in DOMAIN list : KeyOf(list[i]) = key}
    IN  IF at = {} THEN 0 ELSE CHOOSE i \in at : \A j \in at : i <= j

\* the retrievers (by index) that return the key
ReturnedBy(key) == {r \in 1..3 : RankIn(RetrieverLists[r], key) > 0}

\* one contribution 1/(60 + rank) from each retriever that returns the key
FusedScore(key) ==
    SumSeq([r \in 1..3 |->
        IF r \in ReturnedBy(key)
        THEN RrfScale \div (60 + RankIn(RetrieverLists[r], key))
        ELSE 0])

\* C9: Reciprocal-rank fusion. The hybrid output holds exactly one result per
\* distinct (file_path, line_number) key returned by any retriever; the key's
\* fused score is the sum, over the retrievers that return it, of one
\* contribution 1/(60 + rank) per retriever, rank being the key's 1-based
\* position in that retriever's list; the output is sorted by score descending.
RrfFusion ==
    HybridRan =>
        LET list == Unwrap(results)
        IN  /\ {KeyOf(list[i]) : i \in DOMAIN list}
                 = UNION {{KeyOf(RetrieverLists[r][i]) : i \in DOMAIN RetrieverLists[r]} :
                            r \in 1..3}
            /\ \A i, j \in DOMAIN list : i # j => KeyOf(list[i]) # KeyOf(list[j])
            /\ \A i \in DOMAIN list : list[i].score = FusedScore(KeyOf(list[i]))
            /\ \A i, j \in DOMAIN list : i < j => list[i].score >= list[j].score

\* C10: Hybrid monotonicity. For two keys A and B, if A is returned by a
\* strict superset of the retrievers that return B, and A's rank is equal or
\* better than B's in every retriever returning B, then A is placed no lower
\* than B in the hybrid output.
HybridMonotone ==
    HybridRan =>
        LET list == Unwrap(results)
        IN  \A a, b \in DOMAIN list :
                LET A == KeyOf(list[a])
                    B == KeyOf(list[b])
                IN  (/\ ReturnedBy(B) \subseteq ReturnedBy(A)
                     /\ ReturnedBy(B) # ReturnedBy(A)
                     /\ \A r \in ReturnedBy(B) :
                            RankIn(RetrieverLists[r], A) <= RankIn(RetrieverLists[r], B))
                    => a < b

\* the position at which the key was first inserted into the accumulator
InsertedAt(key) ==
    LET acc == RrfAccumulate(RetrieverLists[1], RetrieverLists[2], RetrieverLists[3])
    IN  CHOOSE i \in DOMAIN acc : acc[i].key = key

\* C11: Tie-breaking. The hybrid output is ordered higher score first, and
\* keys with equal fused score appear in the order in which they were first
\* inserted into the accumulator, so the same query on the same index always
\* yields the same order.
TieBreakStable ==
    HybridRan =>
        LET list == Unwrap(results)
        IN  \A i, j \in DOMAIN list :
                i < j =>
                    \/ list[i].score > list[j].score
                    \/ /\ list[i].score = list[j].score
                       /\ InsertedAt(KeyOf(list[i])) < InsertedAt(KeyOf(list[j]))

\* the last call missed the cache and ran a retriever
Missed == IsSome(out) /\ IsSome(results)

\* C12: Central pagination. On a cache miss search() sets total_matches to the
\* length of the retriever's full list and returns exactly the elements at
\* positions offset .. offset + limit - 1 of that list, in the same order;
\* hence |results| <= limit, and offset + |results| <= total_matches
\* whenever results is not empty.
CentralPagination ==
    Missed =>
        LET list == Unwrap(results)
            page == LastResults
            rest == Len(list) - LastQuery.offset
        IN  /\ Unwrap(out).total_matches = Len(list)
            /\ Len(page) = (IF rest <= 0 THEN 0 ELSE Min(rest, LastQuery.limit))
            /\ \A i \in DOMAIN page : page[i] = list[LastQuery.offset + i]
            /\ Len(page) <= LastQuery.limit
            /\ page # <<>> => LastQuery.offset + Len(page) <= Unwrap(out).total_matches

\* a miss returned a full page from the middle of a longer list
CentralPaginationWitness ==
    /\ Missed
    /\ LastQuery.offset > 0
    /\ Len(LastResults) = LastQuery.limit
    /\ Len(Unwrap(results)) > LastQuery.offset + LastQuery.limit
    /\ LastResults[1] # Unwrap(results)[1]

\* the committed index and the metadata store hold the current content of
\* every file on disk: what a full index pass over the workspace leaves
FullPassDone(dsk, docs, m) ==
    \A p \in Paths :
        dsk[p] # NoFile =>
            /\ \E i \in DOMAIN docs : docs[i].path = p /\ docs[i].content = dsk[p]
            /\ m[p] = ContentHash(dsk[p])

\* C13: reindex() clears the cache and re-runs a full index. Through every
\* reindex entry point (SearchEngine::reindex, Indexer::reindex,
\* RuneBridge::reindex), when the call returns a full index pass over the
\* workspace has run and the cache holds no entry stored before the call.
ReindexClearsAndIndexes ==
    [][(SearchReindex \/ IndexerReindex \/ BridgeReindex) =>
            /\ cache' \cap cache = {}
            /\ FullPassDone(disk', committed', meta')
      ]_vars

\* a modified event has been processed and committed, no other event is
\* pending, and the reader has followed the commit
ModifiedSettled ==
    /\ IsSome(handled)
    /\ Unwrap(handled).kind = "Modified" /\ Unwrap(handled).ok
    /\ events = <<>> /\ pc["events"] = "idle"
    /\ readerDocs = committed

\* C14: Incremental update visibility. After a workspace has been indexed and
\* a file is then modified, once the modified event has been processed and
\* committed, a search returns what the index now holds for the query (the
\* new line included), also when the same query was searched before the
\* modification.
UpdateVisible ==
    [][\A q \in LiveQueries :
            (Search(q) /\ ModifiedSettled) =>
                \E list \in Retrieve(q, committed, meta, disk, vstore, semantic) :
                    /\ Unwrap(out').results = Paginate(list, q)
                    /\ Unwrap(out').total_matches = Len(list)
      ]_vars

----------------------------------------------------------------------------
(* Properties of the cache *)

\* the step is a call of search() that looked the query up in the cache
Lookup == metrics'.total_queries = metrics.total_queries + 1

\* the entry the cache holds for the query the step asks
EntryAsked == {e \in cache : e.key = CacheKey(Unwrap(out').query)}

\* C2: Cache freshness. The cache returns a stored response only if the time
\* since the entry was cached is at most l1_ttl; a lookup that finds an older
\* entry removes that entry, returns nothing, and the response is recomputed
\* by a retriever.
CacheFresh ==
    [][Lookup =>
        /\ Unwrap(out').from_cache =>
             \E e \in EntryAsked :
                /\ now - e.cached_at <= L1TtlSecs
                /\ out' = Some([e.response EXCEPT !.from_cache = TRUE])
        /\ \A e \in EntryAsked :
             now - e.cached_at > L1TtlSecs =>
                /\ e \notin cache'
                /\ ~Unwrap(out').from_cache
                /\ IsSome(results')
                /\ Unwrap(results') \in Retrieve(Unwrap(out').query, readerDocs,
                                                 meta, disk, vstore, semantic)
                /\ out' = Some(Response(Unwrap(out').query, Unwrap(results'), FALSE))
      ]_vars

\* a response was served from the cache, then the same query was recomputed
\* after its entry had outlived l1_ttl: the entry now held was cached later
CacheFreshWitness ==
    /\ IsSome(out) /\ ~Unwrap(out).from_cache
    /\ IsSome(prev) /\ Unwrap(prev).from_cache
    /\ PrevQuery = LastQuery
    /\ metrics.l1_hits = 1 /\ metrics.l1_misses = 2
    /\ \E e \in cache : e.key = CacheKey(LastQuery) /\ e.cached_at > L1TtlSecs

\* C15: Cache key. Two queries map to the same cache key if and only if they
\* produce the same result set: a query equal to one whose response is in the
\* cache is served that response, and a response served from the cache for a
\* query is the response the retriever computes for that very query (queries
\* that differ in a way that changes the result set have different keys).
KeyDiscriminates ==
    [][\A q \in KeyQueries :
            SearchCall(q) =>
                /\ (\E e \in cache : e.response.query = q) => Unwrap(out').from_cache
                /\ Unwrap(out').from_cache =>
                     \E list \in Retrieve(q, readerDocs, meta, disk, vstore, semantic) :
                        /\ Unwrap(out').results = Paginate(list, q)
                        /\ Unwrap(out').total_matches = Len(list)
      ]_vars

----------------------------------------------------------------------------
(* Properties of the indexer *)

\* C4: At most one concurrent writer. At any time at most one task is inside
\* a write operation (delete-by-path, add document, commit) on the full-text
\* index, and that task holds the writer lock: the writes are totally ordered
\* by the lock, whatever the interleaving of the full index and the
\* processing of file events.
WriterExclusive ==
    /\ \A t1, t2 \in Tasks :
            (pc[t1] \in WritePcs /\ pc[t2] \in WritePcs) => t1 = t2
    /\ \A t \in Tasks : pc[t] \in WritePcs => lock = Some(t)

\* the full index is inside index_file's write while the event processor
\* waits for the lock
WriterExclusiveWitness ==
    /\ pc["full"] \in {"delete_term", "add_document"}
    /\ pc["events"] \in {"index_file", "delete_file", "commit"}
    /\ lock = Some("full")

\* C5: Store consistency. In every state a caller can observe, every path
\* that has a document in the full-text index or a point in the vector store
\* also has a record in the metadata store whose hash is the hash of the
\* indexed content, during and after full indexing and event processing,
\* failing steps included.
StoreConsistent ==
    \A p \in Paths :
        /\ (HasDoc(committed, p) \/ HasPoint(vstore, p)) => meta[p] # NoMeta
        /\ \A i \in DOMAIN committed :
                committed[i].path = p => meta[p] = ContentHash(committed[i].content)
        /\ \A x \in vstore :
                x.file_path = p => meta[p] = ContentHash(x.content[1])

\* the path is in none of the three stores
Dropped(docs, m, store, p) == ~HasDoc(docs, p) /\ m[p] = NoMeta /\ ~HasPoint(store, p)

\* the path is in each of the three stores
Held(docs, m, store, p) == HasDoc(docs, p) /\ m[p] # NoMeta /\ HasPoint(store, p)

\* C6: Delete atomicity. Once a deleted event for a path has been processed
\* the path is absent from the full-text index, the metadata store and the
\* vector store, and while the event is processed no state shows the path
\* dropped by some of the three only.
DeleteAtomic ==
    [][/\ (/\ handled' # handled
           /\ Unwrap(handled').kind = "Deleted"
           /\ Unwrap(handled').ok)
          => Dropped(committed', meta', vstore', Unwrap(handled').path)
       /\ (local'["events"].kind = "Deleted" /\ local'["events"].before)
          => \/ Held(committed', meta', vstore', local'["events"].path)
             \/ Dropped(committed', meta', vstore', local'["events"].path)
      ]_vars

SameChunk(x, y) ==
    /\ x.file_path = y.file_path
    /\ x.start_line = y.start_line
    /\ x.end_line = y.end_line
    /\ x.content = y.content

\* the step is a pass of process_file, by task t, that stores its points
Processes(t) ==
    /\ pc[t] = "semantic" /\ pc'[t] = "store_metadata"
    /\ faults' = faults
    /\ semantic
    /\ ChunkFile(local[t].content, local[t].path) # <<>>

\* C7: Identity idempotence. The point id is a deterministic function of
\* (file_path, start_line, end_line, content): a chunk gets the same id at
\* every pass; processing the same file content twice replaces the same
\* points and leaves the set of points in the store unchanged.
IdentityIdempotent ==
    [][/\ \A x, y \in issued' : SameChunk(x, y) => x.id = y.id
       /\ \A t \in Tasks :
            (Processes(t) /\ embedded[local[t].path] = local[t].content)
                => vstore' = vstore
      ]_vars

\* the file a.js was written again with the content it had: the full index
\* and the event processor have both processed (a.js, c2)
IdentityIdempotentWitness ==
    /\ semantic /\ faults = 0
    /\ pc["full"] = "done"
    /\ pc["events"] = "store_metadata"
    /\ local["events"].path = PathA /\ local["events"].content = "c2"
    /\ embedded[PathA] = "c2"
    /\ FilePoints(PathA, "c2") \subseteq vstore

\* C8: Identity covers content. The id is made of the path hash, the line
\* range and the content hash, so two chunks with the same file path and line
\* range but different content receive different ids.
IdentityCoversContent ==
    \A x, y \in issued :
        (/\ x.file_path = y.file_path
         /\ x.start_line = y.start_line
         /\ x.end_line = y.end_line
         /\ x.content # y.content)
        => x.id # y.id

----------------------------------------------------------------------------
(* Properties of the cache at capacity *)

\* the entries of a cache accessed longest ago
Oldest(c) == {e \in c : \A x \in c : e.last_accessed <= x.last_accessed}

\* C16. LRU eviction: a put into a cache that holds l1_max_entries entries (or
\* more) evicts exactly one entry, the one with the oldest last_accessed, and
\* removes no other entry; the insert that follows takes no entry of another
\* key away; and a cache hit sets the entry's last_accessed to the time of
\* the hit.
LruEviction ==
    [][/\ \A c \in Callers :
            CallPutEvict(c) =>
                IF Cardinality(cache) >= MaxEntries
                THEN \E e \in Oldest(cache) : cache' = cache \ {e}
                ELSE cache' = cache
       /\ \A c \in Callers :
            CallPutInsert(c) =>
                /\ {e \in cache : e.key # CacheKey(Unwrap(callers[c].query))} \subseteq cache'
                /\ Cardinality(cache' \ cache) = 1
       /\ \A c \in Callers, q \in LruQueries :
            CallGet(c, q) /\ metrics'.l1_hits > metrics.l1_hits =>
                /\ {e.key : e \in cache'} = {e.key : e \in cache}
                /\ \A e \in cache' : e.last_accessed = IF e.key = CacheKey(q) THEN now
                                                         ELSE (CHOOSE x \in cache : x.key = e.key).last_accessed
      ]_vars

\* a put has evicted from a full cache the entry cached last and kept the
\* entry cached first, which a hit had refreshed
LruEvictionWitness ==
    /\ metrics.l1_misses = 3
    /\ metrics.l1_hits = 1
    /\ \E c \in Callers : callers[c].pc = "insert"
    /\ \E c \in Callers : callers[c].pc = "idle"
    /\ \E e \in cache : cache = {e} /\ e.access_count = 2 /\ e.cached_at < 4

\* C17. Bounded cache: the number of entries in the query-result cache never
\* exceeds l1_max_entries, also when several callers of search() insert into
\* the cache at the same time.
CacheBounded == Cardinality(cache) <= SmallCacheConfig.l1_max_entries

\* C18. Cache admission: a query whose text is shorter than min_query_length
\* is never cached: its search leaves the cache as it was, no entry of the
\* cache holds such a query, and every search of it returns a response
\* computed by a retriever (never one from the cache).
ShortNeverCached ==
    [][/\ \A e \in cache' : Len(e.response.query.query) >= MinQueryLength
       /\ \A q \in ShortQueries :
            SearchCall(q) =>
                /\ cache' = cache
                /\ \E list \in Retrieve(q, readerDocs, meta, disk, vstore, semantic) :
                     /\ results' = Some(list)
                     /\ out' = Some(Response(q, list, FALSE))
      ]_vars

\* a short query has been searched twice in a row, next to a cached query,
\* and is answered by the retriever the second time as well
ShortNeverCachedWitness ==
    /\ cache # {}
    /\ IsSome(out) /\ IsSome(prev) /\ IsSome(results)
    /\ Unwrap(out).query \in ShortQueries
    /\ Unwrap(prev).query = Unwrap(out).query
    /\ Unwrap(out).from_cache = FALSE

----------------------------------------------------------------------------
(* Properties of the watch lifecycle *)

\* C20. Watch lifecycle: start_watching() on a watching indexer changes
\* nothing; after any sequence of start_watching() and stop_watching() calls
\* there is at most one live event processor and at most one debouncer per
\* root; and after stop_watching() has returned there is no live processor,
\* no debouncer, and is_watching() is false.
WatchLifecycle ==
    /\ [](/\ watch.watcher_handles <= 1
          /\ \A r \in WatchRoots : watch.debouncer_handles[r] <= 1
          /\ watch.watching <=> watch.watcher_handles = 1
          /\ watch.watching => StartOutcomes(watch) = {watch})
    /\ [][/\ StopWatching =>
                /\ watch'.watcher_handles = 0
                /\ \A r \in WatchRoots : watch'.debouncer_handles[r] = 0
                /\ ~watch'.watching
         ]_vars

\* the watchers have been stopped and started again, and the second start
\* could not watch the root
WatchLifecycleWitness ==
    /\ watch.watching
    /\ watch.watcher_handles = 1
    /\ \A r \in WatchRoots : watch.debouncer_handles[r] = 0
    /\ changes = 1

\* C21. Shutdown drain: every file event that is in the channel from the
\* debouncers to the processor when the shutdown is signalled is processed
\* before the processor terminates: stop_watching() on a processor that
\* waits in its select leaves no event of the channel unprocessed.
ShutdownDrains == [][StopWatching => events = <<>>]_vars

\* C22. Watcher failure: when no watcher could be established for the
\* workspace roots, the engine is in non-watching mode (is_watching() is
\* false) and the next start_watching() call attempts to establish the
\* watchers again.
WatcherFailureNonWatching ==
    (\A r \in WatchRoots : watch.debouncer_handles[r] = 0) =>
        /\ ~watch.watching
        /\ StartOutcomes(watch) # {watch}

----------------------------------------------------------------------------
(* Properties of concurrent full indexing *)

BothDone == \A t \in FullTasks : pc[t] = "done"

\* the steps a call of index_workspaces has still to take, at most
StepsLeft(t) ==
    LET left == 10 * Len(local[t].files)
    IN  CASE pc[t] = "idle" -> 100
          [] pc[t] = "walk" -> 99
          [] pc[t] = "read_batch" -> 98
          [] pc[t] = "next_file" -> left + 6
          [] pc[t] = "index_file" -> left + 15
          [] pc[t] = "delete_term" -> left + 14
          [] pc[t] = "add_document" -> left + 13
          [] pc[t] = "semantic" -> left + 12
          [] pc[t] = "store_metadata" -> left + 11
          [] pc[t] = "commit" -> IF local[t].kind = "Batch" THEN 5 ELSE 3
          [] pc[t] = "committing" -> IF local[t].kind = "Batch" THEN 4 ELSE 2
          [] pc[t] = "done" -> 0

\* the call waits for the writer's lock, which another task holds
WaitsForWriter(t) == pc[t] \in {"index_file", "commit"} /\ ~CanAcquire(lock)

\* C23. Concurrent full indexing is harmless: two concurrent
\* index_workspaces() calls both complete (while one has not completed, a
\* call that does not wait for the writer exists, and every step takes the
\* calls nearer to their end); each increments the call counter exactly once
\* and the counter never decreases; and when both have completed, the
\* committed full-text index and the metadata store are those of a single
\* call on the same files (one document per file, the same documents, the
\* same metadata).
TwoFullHarmless ==
    /\ [](~BothDone => \E t \in FullTasks : pc[t] # "done" /\ ~WaitsForWriter(t))
    /\ [](BothDone =>
            /\ counter = 2
            /\ Len(committed) = Len(FullIndexDocs(disk))
            /\ Range(committed) = Range(FullIndexDocs(disk))
            /\ meta = FullIndexMeta(disk))
    /\ [][/\ StepsLeft("full")' + StepsLeft("full2")'
                < StepsLeft("full") + StepsLeft("full2")
          /\ counter' >= counter
          /\ counter' = counter + 1 <=> pc["full2"] = "idle" /\ pc'["full2"] = "walk"
         ]_vars

\* both calls have completed and the index holds the two files of the
\* workspace
TwoFullHarmlessWitness ==
    /\ BothDone
    /\ counter = 2
    /\ Len(committed) = 2

----------------------------------------------------------------------------
(* Properties of the update primitive *)

DocsOf(docs, path) == SelectSeq(docs, LAMBDA d : d.path = path)

\* C24. Update primitive: after any sequence of index_file calls the writer
\* holds at most one document per path, and after a commit so does the
\* committed index; the document of a path carries the content of the
\* latest index_file call for the path, and an index_file call leaves the
\* documents of the other paths alone; a full index of a workspace that has
\* not changed leaves the document count unchanged.
UpdatePrimitive ==
    /\ [](\A p \in Paths : /\ Len(DocsOf(writerDocs, p)) <= 1
                            /\ Len(DocsOf(committed, p)) <= 1)
    /\ [](pc["full"] = "done" /\ changes = 0 =>
            Len(committed) = Len(FullIndexDocs(disk)))
    /\ [][/\ \A t \in Tasks :
                AddDocument(t) =>
                    /\ Len(DocsOf(writerDocs', local[t].path)) = 1
                    /\ DocsOf(writerDocs', local[t].path)[1].content = local[t].content
                    /\ \A p \in Paths \ {local[t].path} :
                            DocsOf(writerDocs', p) = DocsOf(writerDocs, p)
          /\ \A t \in Tasks : Commit(t) => committed' = writerDocs
         ]_vars

\* a file has been modified, the event processor has indexed it again and
\* committed; the index holds the one document of the file, with the new
\* content
UpdatePrimitiveWitness ==
    /\ IsSome(handled)
    /\ Unwrap(handled).kind = "Modified"
    /\ Unwrap(handled).ok
    /\ pc["full"] = "done"
    /\ Len(DocsOf(committed, Unwrap(handled).path)) = 1
    /\ DocsOf(committed, Unwrap(handled).path)[1].content = disk[Unwrap(handled).path]

----------------------------------------------------------------------------
(* Properties of the full index under failures *)

\* the number of files of the workspace the engine is started on
InitialFiles == Cardinality({p \in Paths : Workspace("c2", NoFile, "c3")[p] # NoFile})

\* the file is indexed with the content it has on disk
FullyIndexed(p) ==
    /\ disk[p] # NoFile
    /\ Len(DocsOf(committed, p)) = 1
    /\ DocsOf(committed, p)[1].content = disk[p]
    /\ meta[p] = ContentHash(disk[p])

\* C25. Per-file errors never abort: when a step on one file fails during
\* a full index (the file cannot be read, index_file, the embedding or the
\* metadata write returns an error), the loop goes on with the files that
\* are left, whose number the failure does not change; index_workspaces()
\* runs to its final commit and returns success; and every file but the
\* ones that failed or were removed is indexed then.
PerFileErrorsSkip ==
    /\ [][FileStepFails("full") =>
            /\ pc'["full"] \in {"semantic", "store_metadata", "next_file"}
            /\ local'["full"] = local["full"]
            /\ \A p \in Paths \ {local["full"].path} :
                    DocsOf(writerDocs', p) = DocsOf(writerDocs, p) /\ meta'[p] = meta[p]
         ]_vars
    /\ [](pc["full"] = "done" =>
            /\ local["full"].kind = "Final"
            /\ committed = writerDocs
            /\ Cardinality({p \in Paths : FullyIndexed(p)})
                    >= InitialFiles - faults - changes)

\* the full index has returned after a step on one file failed, and the
\* other file is indexed
PerFileErrorsSkipWitness ==
    /\ pc["full"] = "done"
    /\ faults = 1
    /\ changes = 0
    /\ Cardinality({p \in Paths : FullyIndexed(p)}) = 1

----------------------------------------------------------------------------
(* Properties of the engine without its vector store *)

\* C26. Vector store unavailability is non-fatal: while the vector store is
\* unavailable, the store operation of the indexer returns without error
\* and without storing, a semantic-mode search returns zero results with
\* total_matches 0, and a hybrid-mode search returns the fusion of the
\* literal and the symbol results alone.
UnavailableNonFatal ==
    [][/\ \A q \in OutageQueries :
            Search(q) /\ ~semantic =>
                /\ q.mode = "Semantic" =>
                        /\ Unwrap(out').results = <<>>
                        /\ Unwrap(out').total_matches = 0
                /\ q.mode = "Hybrid" /\ IsSome(results') =>
                        Unwrap(results') \in
                            HybridOutcomes(LiteralSearch(q, readerDocs),
                                           SymbolSearch(q, readerDocs), <<>>)
       /\ SemanticIndexFile("events") /\ ~semantic =>
                /\ vstore' = vstore
                /\ pc'["events"] = "store_metadata"
      ]_vars

\* with the points of an earlier run in the store and the store
\* unavailable, a hybrid search has returned results
UnavailableNonFatalWitness ==
    /\ ~semantic
    /\ vstore # {}
    /\ IsSome(out) /\ IsSome(results)
    /\ Unwrap(out).query.mode = "Hybrid"
    /\ Unwrap(out).total_matches > 0
    /\ IsSome(handled)

----------------------------------------------------------------------------
(* Properties of the connection to the vector store *)

\* C27. QDRANT_URL override: when QDRANT_URL is set it is the sole endpoint
\* tried: no connection attempt is made to any other endpoint, and when no
\* attempt on it passed the manager is built without a client.
SoleEndpoint ==
    IsSome(qdrant.env_url) =>
        /\ \A i \in 1..Len(qdrant.attempts) :
              qdrant.attempts[i].url = Unwrap(qdrant.env_url)
        /\ \A i \in 1..Len(qdrant.attempts) :
              qdrant.attempts[i].call = 1
        /\ (/\ qdrant.pc = "done"
            /\ \A i \in 1..Len(qdrant.attempts) :
                  qdrant.attempts[i].call = 1 => ~qdrant.attempts[i].ok)
             => qdrant.client = None /\ ~semantic

\* the attempts and the waits of the k-th call of connect_with_retry
AttemptsOf(k) == SelectSeq(qdrant.attempts, LAMBDA a : a.call = k)
SleepsOf(k) == SelectSeq(qdrant.sleeps, LAMBDA w : w.call = k)

\* max_retries of the k-th call
RetriesOf(k) ==
    IF IsSome(qdrant.env_url) /\ k = 1 THEN EnvRetries ELSE FallbackRetries

\* the largest number of calls and of attempts of one construction
MaxConnectCalls == 1 + Len(ConnectionAttempts)

MaxAttempts == EnvRetries + Len(ConnectionAttempts) * FallbackRetries

\* what is left to do of the construction: it decreases with every step
ConnectSteps ==
    CASE qdrant.pc = "none" -> 3 * MaxAttempts + 3
      [] qdrant.pc = "done" -> 0
      [] qdrant.pc = "init_collection" -> 1
      [] qdrant.pc = "connect" ->
            3 * (MaxAttempts - Len(qdrant.attempts)) + 2
      [] qdrant.pc = "sleep" ->
            3 * (MaxAttempts - Len(qdrant.attempts)) + 3

\* C28. Bounded connection retry: each call of connect_with_retry makes at
\* most max_retries attempts, waits between consecutive attempts with a
\* delay that starts at 1 second and doubles, does not wait after its last
\* attempt, and gives no client when every attempt failed; the construction
\* ends after a bounded number of attempts and is then unavailable.
BoundedRetry ==
    /\ [](\A k \in 1..MaxConnectCalls :
            LET a == AttemptsOf(k)
                w == SleepsOf(k)
                over == k < qdrant.call \/ qdrant.pc \in {"init_collection", "done"}
            IN  /\ Len(a) <= RetriesOf(k)
                /\ Len(w) <= Len(a)
                /\ Len(w) <= RetriesOf(k) - 1
                /\ a # <<>> => Len(w) >= Len(a) - 1
                /\ over /\ a # <<>> => Len(w) = Len(a) - 1
                /\ \A j \in 1..Len(w) :
                      /\ w[j].delay = FirstDelay * 2 ^ (j - 1)
                      /\ ~a[j].ok
                      /\ qdrant.attempts[w[j].after] = a[j])
    /\ [](Len(qdrant.attempts) <= MaxAttempts /\ qdrant.call <= MaxConnectCalls)
    /\ [](qdrant.pc = "done" /\ (\A i \in 1..Len(qdrant.attempts) :
                                    ~qdrant.attempts[i].ok)
            => qdrant.client = None /\ ~semantic)
    /\ [][ConnectSteps' < ConnectSteps]_vars

\* every attempt of a construction without QDRANT_URL failed: six attempts,
\* waits of one second between the two attempts of each endpoint
BoundedRetryWitness ==
    /\ qdrant.pc = "done"
    /\ qdrant.env_url = None
    /\ Len(qdrant.attempts) = Len(ConnectionAttempts) * FallbackRetries
    /\ Len(qdrant.sleeps) = Len(ConnectionAttempts)
    /\ qdrant.client = None

----------------------------------------------------------------------------
(* Properties of the metadata store's lock *)

\* C29. Startup lock handling: the constructor removes the LOCK file only
\* when no live process holds the store; when another live process holds the
\* lock, the LOCK file is not removed and the construction fails, so two
\* processes never both have the store open for writing.
LockHandling ==
    /\ Cardinality(dbdir.writers) <= 1
    /\ dbdir.orphaned = {}
    /\ \A p \in StoreProcesses :
          dbdir.result[p] = "ok" => dbdir.locked_by = {p}

----------------------------------------------------------------------------
(* Properties of the vector store after a full pass *)

\* C30. Stale vectors are bounded by the next full pass: after a full index
\* pass has completed, every point of the vector store is a chunk of the
\* current content of an indexed file.
FullPassPurges ==
    [][IndexerReindex =>
          \A pt \in vstore' : pt \in FullIndexPoints(disk', semantic')]_vars

----------------------------------------------------------------------------
(* Properties of the symbol extraction *)

\* C31. Unsupported languages: for every language for which no grammar is
\* available, symbol extraction returns success with an empty symbol list,
\* and indexing a file of such a language writes its document to the
\* full-text index.
UnsupportedLanguagesEmpty ==
    /\ (/\ direct.fn = "extract_symbols"
        /\ ~GetTreeSitterLanguage(direct.language).ok)
          => direct.ret = Ok(<<>>)
    /\ (/\ direct.fn = "index_file"
        /\ ~GetTreeSitterLanguage(direct.language).ok)
          => /\ direct.ret
             /\ DocsOf(writerDocs, direct.path) =
                    <<Doc(direct.path, RootRepository, direct.content)>>

----------------------------------------------------------------------------
(* Properties of the fuzzy matcher *)

\* the parts of the lower-cased line that begin at the column of a result
PartsAt(line, column) ==
    {SubSeq(Lower(line), column + 1, e) : e \in (column + 1)..Len(line)}

----------------------------------------------------------------------------
(* Properties of the cache metrics *)

\* C33. Query counting: every call of search() increments the total-queries
\* counter by exactly one and records exactly one hit or one miss, so the
\* counter equals the number of calls and the sum of hits and misses.
QueryCounting ==
    /\ [](metrics.total_queries = metrics.l1_hits + metrics.l1_misses)
    /\ [][\A q \in AdmitQueries :
            SearchCall(q) =>
               /\ metrics'.total_queries = metrics.total_queries + 1
               /\ metrics'.l1_hits + metrics'.l1_misses
                     = metrics.l1_hits + metrics.l1_misses + 1]_vars

----------------------------------------------------------------------------
(* Properties of the literal retriever *)

\* C34. Literal retriever limit and offset: LiteralSearcher::search called
\* directly returns no more than query.limit results, and with offset k its
\* results begin at the (k+1)-th result of the same query run with offset 0.
LiteralLimitOffset ==
    direct.fn = "literal_search" =>
        LET q == direct.query
            base == LiteralSearch([q EXCEPT !.offset = 0], readerDocs)
        IN  /\ Len(direct.ret) <= q.limit
            /\ Len(base) > q.offset =>
                  /\ direct.ret # <<>>
                  /\ direct.ret[1] = base[q.offset + 1]

----------------------------------------------------------------------------
(* Properties of the full index run beside the watcher *)

\* the full index has completed and every file event has been processed
Settled ==
    /\ pc["full"] = "done"
    /\ pc["events"] = "idle"
    /\ events = <<>>

\* C35. No lost update between full index and watcher: once start() has
\* completed and every pending file event has been processed, the committed
\* document and the metadata hash of every file correspond to its content
\* on disk, and a file deleted from disk is absent from both stores.
NoLostUpdate ==
    Settled =>
        \A p \in Paths :
            IF disk[p] = NoFile
            THEN ~HasDoc(committed, p) /\ meta[p] = NoMeta
            ELSE /\ Len(DocsOf(committed, p)) = 1
                 /\ DocsOf(committed, p)[1].content = disk[p]
                 /\ meta[p] = ContentHash(disk[p])

----------------------------------------------------------------------------
(* Properties of file events that fail *)

\* the workspaces the engine can have indexed before the file at path changed
Before(path) ==
    {d \in Workspaces : \A p \in Paths : p # path => d[p] = disk[p]}

\* C36. Failed events have no effect: a file event whose processing returned
\* an error leaves the committed index and the metadata store as they were
\* before the event (the full index of the workspace before the change), and
\* leaves nothing staged in the writer for a later commit to publish.
FailedEventNoEffect ==
    (/\ changes = 1
     /\ IsSome(handled)
     /\ ~Unwrap(handled).ok
     /\ pc["events"] = "idle")
        => /\ \E d \in Before(Unwrap(handled).path) :
                /\ committed = FullIndexDocs(d)
                /\ meta = FullIndexMeta(d)
           /\ writerDocs = committed

\* C37. Incremental update refines full index: once a created or modified
\* event for a file has been processed without error, the committed index
\* holds for the file the document a full index pass over the same content
\* would add (same repository name: the final component of the workspace
\* root) and the metadata store holds the same records.
IncrementalRefinesFull ==
    (/\ faults = 0
     /\ changes = 1
     /\ IsSome(handled)
     /\ Unwrap(handled).ok
     /\ Unwrap(handled).kind \in {"Created", "Modified"}
     /\ pc["events"] = "idle")
        => /\ DocsOf(committed, Unwrap(handled).path)
                = DocsOf(FullIndexDocs(disk), Unwrap(handled).path)
           /\ meta = FullIndexMeta(disk)

\* C38. Reindex reflects the disk: when Indexer::reindex has completed, the
\* paths with a document in the committed index and the paths with a record
\* in the metadata store are both the paths of the files on disk; a file
\* removed while no watcher ran is indexed no longer.
ReindexReflectsDisk ==
    [][IndexerReindex =>
        \A p \in Paths : /\ HasDoc(committed', p) <=> disk'[p] # NoFile
                         /\ meta'[p] # NoMeta <=> disk'[p] # NoFile]_vars

----------------------------------------------------------------------------
(* Properties of stop_watching() *)

----------------------------------------------------------------------------
(* Properties of the syntax-tree chunker *)

\* the units whose text a chunk holds, in order
UnitsOf(chunk) ==
    LET pieces == SelectSeq(chunk.content, LAMBDA x : x.unit # <<>>)
    IN  [i \in DOMAIN pieces |-> pieces[i].unit[1]]

\* C40. Syntax-tree chunk line ranges: every chunk built from semantic
\* units has start_line equal to the start line of its first unit and
\* end_line equal to the end line of its last unit, with
\* 1 <= start_line <= end_line, also when the chunk begins with the import
\* context.
ChunkLineRanges ==
    direct.fn = "units_to_chunks" =>
        \A i \in DOMAIN direct.ret :
            LET chunk == direct.ret[i]
                units == UnitsOf(chunk)
            IN  units # <<>> =>
                    /\ chunk.start_line = units[1].start_line
                    /\ chunk.end_line = units[Len(units)].end_line
                    /\ 1 <= chunk.start_line
                    /\ chunk.start_line <= chunk.end_line


====
